---- MODULE Spec2Model ----
(***************************************************************************)
(* State-machine model of the snake pattern generator of                   *)
(* src/backend/algo_v2.py: the Snake agent (move_step), the collision      *)
(* branch builder (create_pink_branch), the region finder (findEmptySpace) *)
(* and the orchestrator (generate_snake_pattern) with its recursion.       *)
(*                                                                         *)
(* A mask (numpy array of 0/255) is a record [w, h, rects]: the pixels     *)
(* that are 255 are the union of the inclusive rectangles of rects.        *)
(* An occupancy grid (scaffold_array) is the set of its cells <<x, y>>     *)
(* that hold 1.  None is the empty tuple.                                  *)
(***************************************************************************)
EXTENDS Integers, Sequences, FiniteSets, TLC

VARIABLES
    mask,                \* the shape mask of the run
    array_shape,         \* <<height, width>> of the occupancy grids
    return_array,        \* argument of the outermost call
    max_recursion_depth, \* argument of the outermost call
    entry,               \* "generate" or "legacy": the function the caller invoked
    seed,                \* the random source: its sequence of outcomes
    draws,               \* number of random outcomes consumed so far
    pc,                  \* position of the running invocation
    frames,              \* one frame per live invocation of generate_snake_pattern
    arg_start,           \* startPoint argument of the invocation being entered
    used_starts,         \* the list shared by all invocations
    ret,                 \* value returned by the invocation that just returned
    result,              \* value returned to the caller (None while running)
    raised,              \* exception that reached the caller ("" if none)
    passes,              \* ghost: number of passes (snake pairs) started
    horizon,             \* number of loop iterations per pass the model follows
    fes,                 \* state of the findEmptySpace harness
    earlier,             \* what earlier calls with the same arguments and seed returned
    builder,             \* state of the branch-geometry harness
    placer,              \* state of the generate_random_connectors harness
    http                 \* state of the /generate request handler

vars == <<mask, array_shape, return_array, max_recursion_depth, entry, seed, draws,
          pc, frames, arg_start, used_starts, ret, result, raised, passes, horizon, fes,
          earlier, builder, placer, http>>

None == <<>>

(***************************************************************************)
(* Program constants                                                       *)
(***************************************************************************)
step_size == 5
down_pixels == 10
crossover_spacing == 10
max_iterations == 15000
bottom_margin == 10
active_margin == 5
collision_window == 8
default_recursion_depth == 3
default_min_region_size == 30
default_min_distance == 30
bump_search_radius == 10
bump_default == 5
bump_max == 20
midpoint_search_radius == 3
probe_first_offset == 10
probe_offset_limit == 100
probe_offset_step == 5

(***************************************************************************)
(* Bounds of the model                                                     *)
(***************************************************************************)
BandW == 12
BandH == 24
BandSplit == 8
MaxBlobs == 5
SeedLen == 2
FesRowLen == 3
FesCells == 8
MaxIter == 40

(***************************************************************************)
(* Arithmetic helpers                                                      *)
(***************************************************************************)
Abs(n) == IF n < 0 THEN -n ELSE n

Min2(a, b) == IF a < b THEN a ELSE b

Max2(a, b) == IF a > b THEN a ELSE b

SetMin(S) == CHOOSE m \in S : \A n \in S : m <= n

SetMax(S) == CHOOSE m \in S : \A n \in S : m >= n

RECURSIVE SetSum(_)
SetSum(S) == IF S = {} THEN 0
             ELSE LET e == CHOOSE e \in S : TRUE IN e + SetSum(S \ {e})

\* int(np.mean(xs)) of a non-empty set of non-negative integers
IntMean(S) == SetSum(S) \div Cardinality(S)

Last(s, n) == IF Len(s) <= n THEN s ELSE SubSeq(s, Len(s) - n + 1, Len(s))

SeqSet(s) == {s[i] : i \in 1..Len(s)}

(***************************************************************************)
(* The shape mask                                                          *)
(***************************************************************************)
InRect(r, x, y) == r[1] <= x /\ x <= r[3] /\ r[2] <= y /\ y <= r[4]

is_point_in_shape(m, x, y) ==
    /\ 0 <= y /\ y < m.h /\ 0 <= x /\ x < m.w
    /\ \E r \in m.rects : InRect(r, x, y)

\* np.where(mask[y] == 255)[0]
RowXs(m, y) == {x \in 0..(m.w - 1) : is_point_in_shape(m, x, y)}

ShapeRows(m) == {y \in 0..(m.h - 1) : RowXs(m, y) # {}}

ShapePixels(m) == {p \in (0..(m.w - 1)) \X (0..(m.h - 1)) : is_point_in_shape(m, p[1], p[2])}

find_topmost_point(m) ==
    IF ShapeRows(m) = {} THEN None
    ELSE LET top_y == SetMin(ShapeRows(m))
         IN <<IntMean(RowXs(m, top_y)), top_y>>

find_bottommost_point(m) ==
    IF ShapeRows(m) = {} THEN None
    ELSE LET bottom_y == SetMax(ShapeRows(m))
         IN <<IntMean(RowXs(m, bottom_y)), bottom_y>>

get_shape_center_x(m, y) == IF RowXs(m, y) = {} THEN None ELSE IntMean(RowXs(m, y))

check_line_has_shape(m, y) == IF y >= m.h \/ y < 0 THEN FALSE ELSE RowXs(m, y) # {}

\* the counting loops of generate_snake_pattern: cells in the shape from x leftwards
RECURSIVE left_space(_, _, _)
left_space(m, x, y) ==
    IF x >= 0 /\ is_point_in_shape(m, x, y) THEN 1 + left_space(m, x - 1, y) ELSE 0

RECURSIVE right_space(_, _, _)
right_space(m, x, y) ==
    IF x < m.w /\ is_point_in_shape(m, x, y) THEN 1 + right_space(m, x + 1, y) ELSE 0

(***************************************************************************)
(* The occupancy grid                                                      *)
(***************************************************************************)
InArray(shape, x, y) == 0 <= x /\ x < shape[2] /\ 0 <= y /\ y < shape[1]

\* int(x * scale_x) with scale_x = array_shape[1] / mask.shape[1]
ScaleX(m, shape, x) == (x * shape[2]) \div m.w

\* int(y * scale_y) with scale_y = array_shape[0] / mask.shape[0]
ScaleY(m, shape, y) == (y * shape[1]) \div m.h

\* the loop of Bresenham's algorithm: the cells it sets
RECURSIVE BresenhamLoop(_, _, _, _, _, _, _, _, _, _)
BresenhamLoop(shape, x, y, x1, y1, dx, dy, sx, sy, err) ==
    LET here == IF InArray(shape, x, y) THEN {<<x, y>>} ELSE {}
    IN IF x = x1 /\ y = y1 THEN here
       ELSE LET e2 == 2 * err
                goX == e2 > -dy
                goY == e2 < dx
                err2 == err - (IF goX THEN dy ELSE 0) + (IF goY THEN dx ELSE 0)
            IN here \cup BresenhamLoop(shape, IF goX THEN x + sx ELSE x,
                                       IF goY THEN y + sy ELSE y,
                                       x1, y1, dx, dy, sx, sy, err2)

\* the array after draw_line_in_array(array, x0, y0, x1, y1, value=1)
draw_line_in_array(a, shape, x0, y0, x1, y1) ==
    IF ~InArray(shape, x0, y0) \/ ~InArray(shape, x1, y1) THEN a
    ELSE a \cup BresenhamLoop(shape, x0, y0, x1, y1, Abs(x1 - x0), Abs(y1 - y0),
                              IF x0 < x1 THEN 1 ELSE -1, IF y0 < y1 THEN 1 ELSE -1,
                              Abs(x1 - x0) - Abs(y1 - y0))

\* largest r with r * r <= n
RECURSIVE ISqrtFrom(_, _)
ISqrtFrom(n, r) == IF (r + 1) * (r + 1) > n THEN r ELSE ISqrtFrom(n, r + 1)

\* crossover points between two consecutive path points
SegmentCrossovers(p1, p2) ==
    LET d2 == (p2[1] - p1[1]) * (p2[1] - p1[1]) + (p2[2] - p1[2]) * (p2[2] - p1[2])
    IN IF d2 > crossover_spacing * crossover_spacing
       THEN LET n == ISqrtFrom(d2, 0) \div crossover_spacing
            IN {<<p1[1] + (j * (p2[1] - p1[1])) \div (n + 1),
                  p1[2] + (j * (p2[2] - p1[2])) \div (n + 1)>> : j \in 1..n}
       ELSE {}

add_crossovers_to_path(path) ==
    UNION {SegmentCrossovers(path[i], path[i + 1]) : i \in 1..(Len(path) - 1)}

\* the 3x3 marks of the crossovers of the paths, clipped to the array
CrossoverCells(paths, shape) ==
    {c \in UNION {UNION {{<<q[1] + ddx, q[2] + ddy>> : ddx \in -1..1, ddy \in -1..1}
                          : q \in add_crossovers_to_path(paths[k])}
                  : k \in 1..Len(paths)} : InArray(shape, c[1], c[2])}

(***************************************************************************)
(* The collision branch builder                                            *)
(***************************************************************************)
\* variant of calculate_bump_height without the clamp to 1..20
BumpHeightUnclamped(collision_x, collision_y, occupied_points) ==
    IF occupied_points = {} THEN bump_default
    ELSE LET nearby == {p \in occupied_points :
                          /\ Abs(p[1] - collision_x) <= bump_search_radius
                          /\ Abs(p[2] - collision_y) <= bump_search_radius}
         IN IF Cardinality(nearby) < 2 THEN bump_default
            ELSE LET ys == {p[2] : p \in nearby}
                 IN SetMax(ys) - SetMin(ys)

calculate_bump_height(collision_x, collision_y, occupied_points) ==
    IF occupied_points = {} THEN bump_default
    ELSE LET nearby == {p \in occupied_points :
                          /\ Abs(p[1] - collision_x) <= bump_search_radius
                          /\ Abs(p[2] - collision_y) <= bump_search_radius}
         IN IF Cardinality(nearby) < 2 THEN bump_default
            ELSE LET ys == {p[2] : p \in nearby}
                 IN Max2(1, Min2(bump_max, SetMax(ys) - SetMin(ys)))

\* variant of find_snake_midpoint that lets the collision point be its own nearest
\* point
MidpointCountsItself(collision_x, collision_y, occupied_points) ==
    LET near == {p \in occupied_points :
                   /\ Abs(p[1] - collision_x) <= midpoint_search_radius
                   /\ Abs(p[2] - collision_y) <= midpoint_search_radius}
        Dist(p) == Abs(p[1] - collision_x) + Abs(p[2] - collision_y)
        Before(p, q) == p[1] < q[1] \/ (p[1] = q[1] /\ p[2] <= q[2])
    IN IF near = {} THEN <<collision_x, collision_y>>
       ELSE LET best == CHOOSE p \in near : \A q \in near :
                            Dist(p) < Dist(q) \/ (Dist(p) = Dist(q) /\ Before(p, q))
            IN <<(collision_x + best[1]) \div 2, (collision_y + best[2]) \div 2>>

find_snake_midpoint(collision_x, collision_y, occupied_points) ==
    LET near == {p \in occupied_points :
                   /\ Abs(p[1] - collision_x) <= midpoint_search_radius
                   /\ Abs(p[2] - collision_y) <= midpoint_search_radius
                   /\ p # <<collision_x, collision_y>>}
        Dist(p) == Abs(p[1] - collision_x) + Abs(p[2] - collision_y)
        \* the scan runs x ascending, then y ascending, and keeps the first minimum
        Before(p, q) == p[1] < q[1] \/ (p[1] = q[1] /\ p[2] <= q[2])
    IN IF near = {} THEN <<collision_x, collision_y>>
       ELSE LET best == CHOOSE p \in near : \A q \in near :
                            Dist(p) < Dist(q) \/ (Dist(p) = Dist(q) /\ Before(p, q))
            IN <<(collision_x + best[1]) \div 2, (collision_y + best[2]) \div 2>>

\* one arm of a branch: the points mid + i*(ax, ay), i = from..extension, up to the
\* first point outside the shape
RECURSIVE BranchArm(_, _, _, _, _, _)
BranchArm(m, mid, ax, ay, i, extension) ==
    IF i > extension \/ ~is_point_in_shape(m, mid[1] + ax * i, mid[2] + ay * i) THEN <<>>
    ELSE <<<<mid[1] + ax * i, mid[2] + ay * i>>>> \o BranchArm(m, mid, ax, ay, i + 1, extension)

\* orientation and direction are the two outcomes of random.randint(1, 2)
create_pink_branch(collision_x, collision_y, m, occupied_points, orientation, direction) ==
    LET bump_height == calculate_bump_height(collision_x, collision_y, occupied_points)
        mid == find_snake_midpoint(collision_x, collision_y, occupied_points)
        extension == Max2(1, bump_height)
        mult == IF direction = 1 THEN -1 ELSE 1
        ax == IF orientation = 1 THEN mult ELSE 0
        ay == IF orientation = 1 THEN 0 ELSE mult
    IN <<mid>> \o BranchArm(m, mid, ax, ay, 1, extension)
             \o BranchArm(m, mid, -ax, -ay, 1, extension)

(***************************************************************************)
(* The snake agent                                                         *)
(***************************************************************************)
\* Snake.__init__: the agent's fields
Snake(start_x, start_y, initial_direction, snake_id, is_recursive) ==
    [path |-> <<<<start_x, start_y>>>>,
     current_x |-> start_x, current_y |-> start_y,
     dx |-> initial_direction, dy |-> 0,
     snake_id |-> snake_id,
     state |-> "to_edge",
     down_counter |-> 0,
     turn_type |-> "right",
     prev_x |-> start_x, prev_y |-> start_y,
     pink_branches |-> <<>>,
     is_recursive |-> is_recursive]

\* Snake.__init__: the start cell marked in the scaffold array
MarkStart(a, m, shape, start_x, start_y) ==
    IF InArray(shape, ScaleX(m, shape, start_x), ScaleY(m, shape, start_y))
    THEN a \cup {<<ScaleX(m, shape, start_x), ScaleY(m, shape, start_y)>>}
    ELSE a

\* variant of update_scaffold_array that draws nothing
UpdateScaffoldNothing(s, a, m, shape, x, y) == a

\* variant of update_scaffold_array that marks the new cell without the line to it
UpdateScaffoldEndCell(s, a, m, shape, x, y) ==
    IF InArray(shape, ScaleX(m, shape, x), ScaleY(m, shape, y))
    THEN a \cup {<<ScaleX(m, shape, x), ScaleY(m, shape, y)>>}
    ELSE a

\* the scaffold array after update_scaffold_array(x, y) of agent s
update_scaffold_array(s, a, m, shape, x, y) ==
    draw_line_in_array(a, shape, ScaleX(m, shape, s.prev_x), ScaleY(m, shape, s.prev_y),
                       ScaleX(m, shape, x), ScaleY(m, shape, y))

\* variant of turn_90_right that reads dx after overwriting it (no old_dx, old_dy)
TurnRightOverwritten(s) == [s EXCEPT !.dx = -s.dy, !.dy = -s.dy]

turn_90_right(s) == [s EXCEPT !.dx = -s.dy, !.dy = s.dx]

turn_90_left(s) == [s EXCEPT !.dx = s.dy, !.dy = -s.dx]

get_recent_points(s, num_points) == SeqSet(Last(s.path, num_points))

\* the agent after it accepted the point <<x, y>>
Advance(s, x, y, has_array) ==
    [s EXCEPT !.current_x = x, !.current_y = y,
              !.path = Append(s.path, <<x, y>>),
              !.prev_x = IF has_array THEN x ELSE s.prev_x,
              !.prev_y = IF has_array THEN y ELSE s.prev_y]

\* what one call of move_step yields: the agent, the shared occupied set, the shared
\* scaffold array, the returned flag, and whether a branch was built (two random draws)
StepResult(s, occ, a, active, branched) ==
    [snake |-> s, occupied |-> occ, scaffold |-> a, active |-> active, branched |-> branched]

\* variant of ReturnValue that reports an agent active only when it moved
ReturnValueMovedOnly(s, m, moved) == moved

\* line 780: the value move_step returns after its dispatch
ReturnValue(s, m, moved) == moved \/ s.current_y < m.h - active_margin

\* variant of CollisionTurn that keeps the turn bias
CollisionTurnKeepsBias(s) ==
    LET t == IF s.turn_type = "right" THEN turn_90_right(s) ELSE turn_90_left(s)
    IN [t EXCEPT !.state = IF t.turn_type = "right" THEN "turn_right_down"
                           ELSE "turn_left_down",
                 !.down_counter = 0]

\* lines 709-717: after a collision the bias flips and the agent turns to the new side
CollisionTurn(s) ==
    LET t == IF s.turn_type = "right"
             THEN [turn_90_left(s) EXCEPT !.turn_type = "left"]
             ELSE [turn_90_right(s) EXCEPT !.turn_type = "right"]
    IN [t EXCEPT !.state = IF t.turn_type = "right" THEN "turn_right_down"
                           ELSE "turn_left_down",
                 !.down_counter = 0]

\* variant of BoundaryTurn that does not reset the down counter
BoundaryTurnKeepsCounter(s) ==
    IF s.turn_type = "right"
    THEN [turn_90_right(s) EXCEPT !.state = "turn_right_down"]
    ELSE [turn_90_left(s) EXCEPT !.state = "turn_left_down"]

\* lines 718-726: at the shape's boundary the agent turns to the side of its bias
BoundaryTurn(s) ==
    LET t == IF s.turn_type = "right"
             THEN [turn_90_right(s) EXCEPT !.state = "turn_right_down"]
             ELSE [turn_90_left(s) EXCEPT !.state = "turn_left_down"]
    IN [t EXCEPT !.down_counter = 0]

\* variant of AfterBranch: the points of the branch count as occupied
OccupiedWithBranch(occ, branch) == occ \cup {branch[i] : i \in 1..Len(branch)}

\* lines 704-706: the branch goes to pink_branches, occupied_points stays as it was
AfterBranch(occ, branch) == occ

\* state "to_edge"
StepToEdge(s, m, occ, other, a, shape, has_array, orientation, direction) ==
    LET new_x == s.current_x + s.dx * step_size
        new_y == s.current_y + s.dy * step_size
    IN IF is_point_in_shape(m, new_x, new_y)
       THEN IF <<new_x, new_y>> \notin get_recent_points(other, collision_window)
            THEN StepResult(Advance(s, new_x, new_y, has_array),
                            occ \cup {<<new_x, new_y>>},
                            IF has_array THEN update_scaffold_array(s, a, m, shape, new_x, new_y)
                            ELSE a,
                            TRUE, FALSE)
            ELSE IF s.is_recursive
                 THEN StepResult(s, occ, a, FALSE, FALSE)
                 ELSE LET branch == create_pink_branch(s.current_x, s.current_y, m, occ,
                                                       orientation, direction)
                          b == [s EXCEPT !.pink_branches = Append(s.pink_branches, branch)]
                          u == CollisionTurn(b)
                      IN StepResult(u, AfterBranch(occ, branch), a,
                                    ReturnValue(u, m, FALSE), TRUE)
       ELSE LET u == BoundaryTurn(s)
            IN StepResult(u, occ, a, ReturnValue(u, m, FALSE), FALSE)

\* variant of EndDescent that keeps the bias of the finished descent for the next
\* boundary
EndDescentKeepsBias(s, right) ==
    IF s.down_counter >= down_pixels
    THEN IF right
         THEN [turn_90_right(s) EXCEPT !.state = "to_edge", !.turn_type = "right"]
         ELSE [turn_90_left(s) EXCEPT !.state = "to_edge", !.turn_type = "left"]
    ELSE s

\* variant of EndDescent without the second turn: the agent keeps the heading of the
\* first turn when it goes back to "to_edge"
EndDescentOneTurn(s, right) ==
    IF s.down_counter >= down_pixels
    THEN [s EXCEPT !.state = "to_edge", !.turn_type = IF right THEN "left" ELSE "right"]
    ELSE s

\* the end of a descent: the second turn, back to "to_edge"
EndDescent(s, right) ==
    IF s.down_counter >= down_pixels
    THEN IF right
         THEN [turn_90_right(s) EXCEPT !.state = "to_edge", !.turn_type = "left"]
         ELSE [turn_90_left(s) EXCEPT !.state = "to_edge", !.turn_type = "right"]
    ELSE s

\* states "turn_right_down" (right = TRUE) and "turn_left_down" (right = FALSE)
StepTurnDown(s, m, occ, a, shape, has_array, right) ==
    IF s.down_counter < down_pixels
    THEN LET new_y == s.current_y + 1
         IN IF new_y < m.h /\ is_point_in_shape(m, s.current_x, new_y)
            THEN IF check_line_has_shape(m, new_y)
                 THEN LET d == [Advance(s, s.current_x, new_y, has_array)
                                  EXCEPT !.down_counter = s.down_counter + 1]
                          e == EndDescent(d, right)
                      IN StepResult(e, occ \cup {<<s.current_x, new_y>>},
                                    IF has_array
                                    THEN update_scaffold_array(s, a, m, shape, s.current_x, new_y)
                                    ELSE a,
                                    TRUE, FALSE)
                 ELSE StepResult(s, occ, a, FALSE, FALSE)
            ELSE LET e == EndDescent([s EXCEPT !.down_counter = down_pixels], right)
                 IN StepResult(e, occ, a, ReturnValue(e, m, FALSE), FALSE)
    ELSE LET e == EndDescent(s, right)
         IN StepResult(e, occ, a, ReturnValue(e, m, FALSE), FALSE)

\* variant of move_step without the bottom-margin return
MoveStepPastMargin(s, m, occ, other, a, shape, has_array, orientation, direction) ==
    IF s.current_y % (down_pixels * 3) = 0 /\ ~check_line_has_shape(m, s.current_y)
    THEN StepResult(s, occ, a, FALSE, FALSE)
    ELSE IF s.state = "to_edge"
    THEN StepToEdge(s, m, occ, other, a, shape, has_array, orientation, direction)
    ELSE StepTurnDown(s, m, occ, a, shape, has_array, s.state = "turn_right_down")

\* Snake.move_step(mask, occupied_points, other_snake)
move_step(s, m, occ, other, a, shape, has_array, orientation, direction) ==
    IF s.current_y >= m.h - bottom_margin
    THEN StepResult(s, occ, a, FALSE, FALSE)
    ELSE IF s.current_y % (down_pixels * 3) = 0 /\ ~check_line_has_shape(m, s.current_y)
    THEN StepResult(s, occ, a, FALSE, FALSE)
    ELSE IF s.state = "to_edge"
    THEN StepToEdge(s, m, occ, other, a, shape, has_array, orientation, direction)
    ELSE StepTurnDown(s, m, occ, a, shape, has_array, s.state = "turn_right_down")

(***************************************************************************)
(* The region finder                                                       *)
(***************************************************************************)
\* source index of output index i under ndimage.zoom(..., order=0), n_in -> n_out cells
ZoomIndex(i, n_in, n_out) ==
    IF n_out <= 1 THEN 0 ELSE (2 * i * (n_in - 1) + (n_out - 1)) \div (2 * (n_out - 1))

\* scaled_scaffold > 0, at the mask's resolution
line_mask(m, a, shape) ==
    {p \in (0..(m.w - 1)) \X (0..(m.h - 1)) :
        <<ZoomIndex(p[1], shape[2], m.w), ZoomIndex(p[2], shape[1], m.h)>> \in a}

\* variant of empty_areas that ignores the drawn lines
EmptyAreasIgnoreLines(m, a, shape) == ShapePixels(m)

\* empty_areas = shape_mask & ~line_mask
empty_areas(m, a, shape) == ShapePixels(m) \ line_mask(m, a, shape)

Neighbours4(p) == {<<p[1] - 1, p[2]>>, <<p[1] + 1, p[2]>>, <<p[1], p[2] - 1>>, <<p[1], p[2] + 1>>}

\* the flood fill: the 4-connected component of the frontier within area
RECURSIVE FloodFill(_, _, _)
FloodFill(frontier, seen, area) ==
    IF frontier = {} THEN seen
    ELSE LET next == (UNION {Neighbours4(p) : p \in frontier} \cap area) \ seen
         IN FloodFill(next, seen \cup next, area)

\* variant of FirstScanned that scans the columns left to right, each top to bottom
FirstScannedByColumn(S) ==
    LET x == SetMin({p[1] : p \in S})
    IN <<x, SetMin({p[2] : p \in {q \in S : q[1] = x}})>>

\* the first pixel of S in the scan order (rows top to bottom, each left to right)
FirstScanned(S) ==
    LET y == SetMin({p[2] : p \in S})
    IN <<SetMin({p[1] : p \in {q \in S : q[2] = y}}), y>>

\* the start point computed for a region: mean x of its topmost row
RegionStart(region_pixels) ==
    LET top_y == SetMin({p[2] : p \in region_pixels})
    IN <<IntMean({p[1] : p \in {q \in region_pixels : q[2] = top_y}}), top_y>>

\* variant of too_close that compares with the first used start only
TooCloseFirstOnly(start_point, starts, min_distance) ==
    /\ starts # <<>>
    /\ (start_point[1] - starts[1][1]) * (start_point[1] - starts[1][1])
         + (start_point[2] - starts[1][2]) * (start_point[2] - starts[1][2])
       < min_distance * min_distance

\* lines 1019-1031: some used start is closer than min_distance
too_close(start_point, starts, min_distance) ==
    \E i \in 1..Len(starts) :
        (start_point[1] - starts[i][1]) * (start_point[1] - starts[i][1])
          + (start_point[2] - starts[i][2]) * (start_point[2] - starts[i][2])
        < min_distance * min_distance

\* variant of region_large_enough that accepts a region of any size
RegionAnySize(region_pixels, min_region_size) == TRUE

\* line 1006: region_size >= min_region_size
region_large_enough(region_pixels, min_region_size) ==
    Cardinality(region_pixels) >= min_region_size

\* the scan loop over the pixels not yet visited
RECURSIVE ScanRegions(_, _, _, _)
ScanRegions(unvisited, min_region_size, starts, min_distance) ==
    IF unvisited = {} THEN None
    ELSE LET first == FirstScanned(unvisited)
             region_pixels == FloodFill({first}, {first}, unvisited)
         IN IF region_large_enough(region_pixels, min_region_size)
               /\ ~too_close(RegionStart(region_pixels), starts, min_distance)
            THEN RegionStart(region_pixels)
            ELSE ScanRegions(unvisited \ region_pixels, min_region_size, starts, min_distance)

\* findEmptySpace(mask, scaffold_array, min_region_size, used_starts, min_distance);
\* has_array is "scaffold_array is not None"
findEmptySpace(m, a, shape, has_array, min_region_size, starts, min_distance) ==
    IF ~has_array THEN None
    ELSE ScanRegions(empty_areas(m, a, shape), min_region_size, starts, min_distance)

(***************************************************************************)
(* The connector placer                                                    *)
(***************************************************************************)
connector_length == 4
vertical_length == 2
connector_spacing == 15
connector_cap == 20
connector_min_points == 8
connector_arm_min == 4
connector_arm_max == 8
connector_margin == 5
connector_overlap_extra == 10
connector_row_gap_extra == 4

\* x of find_leftmost_point(mask) and of find_rightmost_point(mask)
LeftmostX(m) == SetMin({p[1] : p \in ShapePixels(m)})

RightmostX(m) == SetMax({p[1] : p \in ShapePixels(m)})

RECURSIVE SortedSeq(_)
SortedSeq(S) == IF S = {} THEN <<>> ELSE <<SetMin(S)>> \o SortedSeq(S \ {SetMin(S)})

\* the candidate centers between the populated rows y_upper and y_lower
PairPositions(m, a, shape, y_upper, y_lower) ==
    LET x_overlap == {c[1] : c \in {d \in a : d[2] = y_upper}}
                       \cap {c[1] : c \in {d \in a : d[2] = y_lower}}
    IN IF y_lower - y_upper < 2 * vertical_length + connector_row_gap_extra THEN <<>>
       ELSE IF Cardinality(x_overlap) < connector_length + connector_overlap_extra THEN <<>>
       ELSE LET center_y_mask == (((y_upper + y_lower) \div 2) * m.h) \div shape[1]
                x_min == SetMin(x_overlap)
                x_max == SetMax(x_overlap)
                num_connectors == Max2(1, (x_max - x_min) \div connector_spacing)
                CenterX(j) == IF num_connectors = 1 THEN (x_min + x_max) \div 2
                              ELSE x_min + (j * (x_max - x_min)) \div (num_connectors - 1)
                CenterXMask(j) == (CenterX(j) * m.w) \div shape[2]
                Valid(j) ==
                    /\ LeftmostX(m) + connector_length + connector_margin <= CenterXMask(j)
                    /\ CenterXMask(j) <= RightmostX(m) - connector_length - connector_margin
                    /\ find_topmost_point(m)[2] + vertical_length + connector_margin
                         <= center_y_mask
                    /\ center_y_mask
                         <= find_bottommost_point(m)[2] - vertical_length - connector_margin
                    /\ is_point_in_shape(m, CenterXMask(j), center_y_mask)
                all == [j \in 1..num_connectors |-> <<CenterXMask(j - 1), center_y_mask>>]
            IN SelectSeq(all, LAMBDA q : \E j \in 0..(num_connectors - 1) :
                                             q = <<CenterXMask(j), center_y_mask>> /\ Valid(j))

\* valid_positions: the candidates of every pair of consecutive populated rows
RECURSIVE PositionsFrom(_, _, _, _, _)
PositionsFrom(m, a, shape, rows, i) ==
    IF i >= Len(rows) THEN <<>>
    ELSE PairPositions(m, a, shape, rows[i], rows[i + 1])
           \o PositionsFrom(m, a, shape, rows, i + 1)

valid_positions(m, a, shape) == PositionsFrom(m, a, shape, SortedSeq({c[2] : c \in a}), 1)

\* the points p(i), i = from..to, as a list
Points(P(_), from, to) == [i \in 1..(to - from + 1) |-> P(from + i - 1)]

\* the three arms of a connector around <<center_x, center_y>>, arm length len
BracketPoints(center_x, center_y, len, direction) ==
    LET side == IF direction = "left" THEN 1 ELSE -1
        Top(i) == <<center_x + side * (len - i), center_y - vertical_length>>
        Vertical(i) == <<center_x, center_y - vertical_length + i>>
        Bottom(i) == <<center_x + side * i, center_y + vertical_length>>
    IN Points(Top, 0, len) \o Points(Vertical, 1, 2 * vertical_length) \o Points(Bottom, 1, len)

\* variant of CandidateConnector: the arms are not tested against the shape
CandidateIgnoresShape(m, a, shape, center, len, direction) ==
    LET pts == BracketPoints(center[1], center[2], len, direction)
        Cell(i) == <<ScaleX(m, shape, pts[i][1]), ScaleY(m, shape, pts[i][2])>>
        in_array == \A i \in 1..Len(pts) : InArray(shape, Cell(i)[1], Cell(i)[2])
        conflict_count == Cardinality({i \in 1..Len(pts) : Cell(i) \in a})
    IN IF Len(pts) >= connector_min_points /\ in_array
          /\ conflict_count <= Len(pts) \div 3
       THEN <<pts>> ELSE <<>>

\* variant of CandidateConnector: the filled cells under the arms are not counted
CandidateIgnoresConflicts(m, a, shape, center, len, direction) ==
    LET pts == BracketPoints(center[1], center[2], len, direction)
        inside == \A i \in 1..Len(pts) : is_point_in_shape(m, pts[i][1], pts[i][2])
    IN IF inside /\ Len(pts) >= connector_min_points THEN <<pts>> ELSE <<>>

\* the connector list a candidate contributes: one connector or none
CandidateConnector(m, a, shape, center, len, direction) ==
    LET pts == BracketPoints(center[1], center[2], len, direction)
        inside == \A i \in 1..Len(pts) : is_point_in_shape(m, pts[i][1], pts[i][2])
        Cell(i) == <<ScaleX(m, shape, pts[i][1]), ScaleY(m, shape, pts[i][2])>>
        in_array == \A i \in 1..Len(pts) : InArray(shape, Cell(i)[1], Cell(i)[2])
        conflict_count == Cardinality({i \in 1..Len(pts) : Cell(i) \in a})
    IN IF inside /\ Len(pts) >= connector_min_points /\ in_array
          /\ conflict_count <= Len(pts) \div 3
       THEN <<pts>> ELSE <<>>

\* the loop over the selected positions: position i is tried with arm length lens[i]
\* and direction dirs[i], the outcomes of random.randint and random.choice
RECURSIVE PlacedConnectors(_, _, _, _, _, _, _)
PlacedConnectors(m, a, shape, selected, lens, dirs, i) ==
    IF i > Len(selected) THEN <<>>
    ELSE CandidateConnector(m, a, shape, selected[i], lens[i], dirs[i])
           \o PlacedConnectors(m, a, shape, selected, lens, dirs, i + 1)

\* the lists the loop can build over all random outcomes
ConnectorLists(m, a, shape, selected) ==
    {PlacedConnectors(m, a, shape, selected, lens, dirs, 1) :
       lens \in [1..Len(selected) -> connector_arm_min..connector_arm_max],
       dirs \in [1..Len(selected) -> {"left", "right"}]}

\* selected_positions: random.sample(valid_positions, target_connectors), drawing the
\* indices f[1], f[2], ..., when there are more positions than the cap
Sample(valid, f) ==
    IF Len(valid) > connector_cap THEN [k \in 1..connector_cap |-> valid[f[k]]] ELSE valid

\* the values selected_positions can take
Selections(valid) ==
    IF Len(valid) > connector_cap
    THEN {Sample(valid, f) :
            f \in {g \in [1..connector_cap -> 1..Len(valid)] :
                     \A i, j \in 1..connector_cap : i # j => g[i] # g[j]}}
    ELSE {Sample(valid, <<>>)}

\* the early returns: no shape pixel, no scaffold array, no filled cell
NothingToConnect(m, a, has_array) == find_topmost_point(m) = None \/ ~has_array \/ a = {}

\* the connector lists generate_random_connectors(mask, array_shape, scaffold_array)
\* can return
generate_random_connectors(m, a, shape, has_array) ==
    IF NothingToConnect(m, a, has_array) THEN {<<>>}
    ELSE UNION {ConnectorLists(m, a, shape, selected) :
                  selected \in Selections(valid_positions(m, a, shape))}

\* the scaffold array after the connectors are drawn into it
RECURSIVE DrawPath(_, _, _, _)
DrawPath(a, shape, path, i) ==
    IF i >= Len(path) THEN a
    ELSE DrawPath(draw_line_in_array(a, shape, path[i][1], path[i][2],
                                     path[i + 1][1], path[i + 1][2]),
                  shape, path, i + 1)

RECURSIVE DrawConnectors(_, _, _, _)
DrawConnectors(a, shape, connectors, k) ==
    IF k > Len(connectors) THEN a
    ELSE DrawConnectors(DrawPath(a, shape, connectors[k], 1), shape, connectors, k + 1)

(***************************************************************************)
(* The orchestrator: generate_snake_pattern and its callers                *)
(***************************************************************************)
\* the random source: outcome number k of random.randint(1, 2)
Rand(k) == seed[(k % SeedLen) + 1]

Top == frames[Len(frames)]

current_depth == Len(frames) - 1

\* the start of a pass: the supplied start, or the re-anchored one
RECURSIVE ProbeStart(_, _, _, _)
ProbeStart(m, start_x, start_y, y_offset) ==
    IF y_offset >= Min2(probe_offset_limit, m.h - start_y) \/ start_y + y_offset >= m.h
    THEN <<start_x, start_y>>
    ELSE LET test_y == start_y + y_offset
             center_x == get_shape_center_x(m, test_y)
         IN IF RowXs(m, test_y) # {}
               /\ left_space(m, center_x, test_y) >= step_size * 3
               /\ right_space(m, center_x, test_y) >= step_size * 3
            THEN <<center_x, test_y>>
            ELSE ProbeStart(m, start_x, start_y, y_offset + probe_offset_step)

\* variant of PassStart that never re-anchors
PassStartAsSupplied(m, start_point) == start_point

PassStart(m, start_point) ==
    IF left_space(m, start_point[1], start_point[2]) < step_size
       \/ right_space(m, start_point[1], start_point[2]) < step_size
    THEN ProbeStart(m, start_point[1], start_point[2], probe_first_offset)
    ELSE start_point

\* the frame of an invocation after its two agents are created
NewFrame(m, shape, start_point, has_array, depth) ==
    LET st == PassStart(m, start_point)
    IN [start_point |-> start_point,
        start |-> st,
        has_array |-> has_array,
        left_snake |-> Snake(st[1], st[2], -1, "left", depth > 0),
        right_snake |-> Snake(st[1], st[2], 1, "right", depth > 0),
        occupied_points |-> {st},
        scaffold_array |-> IF has_array THEN MarkStart({}, m, shape, st[1], st[2]) ELSE {},
        iteration |-> 0,
        left_active |-> TRUE,
        right_active |-> TRUE,
        snake_paths |-> <<>>,
        all_pink_branches |-> <<>>,
        connector_branches |-> <<>>]

\* an invocation returns value v: its frame is dropped and its caller resumes
Return(v, fr) ==
    /\ ret' = v
    /\ frames' = fr
    /\ pc' = IF fr = <<>> THEN "caller" ELSE "merge"

\* lines 791-797: no start point, the immediate return
CallEmpty ==
    /\ pc = "call"
    /\ arg_start = None /\ find_topmost_point(mask) = None
    /\ Return(IF return_array THEN <<<<>>, {}, <<>>>> ELSE <<<<>>, <<>>>>, frames)
    /\ UNCHANGED <<mask, array_shape, return_array, max_recursion_depth, entry, seed,
                   draws, arg_start, used_starts, result, raised, passes, horizon, fes,
                   earlier, builder, placer, http>>

\* lines 791-863: start point, re-anchoring probe, the two agents
CallStart ==
    /\ pc = "call"
    /\ arg_start # None \/ find_topmost_point(mask) # None
    /\ frames' = Append(frames,
                        NewFrame(mask, array_shape,
                                 IF arg_start # None THEN arg_start
                                 ELSE find_topmost_point(mask),
                                 IF frames = <<>> THEN return_array ELSE TRUE,
                                 Len(frames)))
    /\ pc' = "left"
    /\ passes' = passes + 1
    /\ UNCHANGED <<mask, array_shape, return_array, max_recursion_depth, entry, seed,
                   draws, arg_start, used_starts, ret, result, raised, horizon, fes,
                   earlier, builder, placer, http>>

\* line 869: while iteration < max_iterations
LoopContinues(iteration) == iteration < max_iterations

\* variant of BudgetRemains that allows one more depth
BudgetRemainsInclusive(depth, budget) == depth <= budget

\* line 914: current_depth < max_recursion_depth
BudgetRemains(depth, budget) == depth < budget

\* variant of MergeScaffold that keeps the grid of the recursive call only
MergeKeepsChildOnly(a, additional) == additional

\* line 930: np.maximum(scaffold_array, additional_scaffold)
MergeScaffold(a, additional) == a \cup additional

\* the model follows the loop of a pass for horizon iterations
Followed(f) == f.iteration < horizon

\* line 870: left_active = left_snake.move_step(mask, occupied_points, right_snake)
StepLeft ==
    /\ pc = "left"
    /\ Followed(Top)
    /\ LET f == Top
           r == move_step(f.left_snake, mask, f.occupied_points, f.right_snake,
                          f.scaffold_array, array_shape, f.has_array,
                          Rand(draws), Rand(draws + 1))
       IN /\ frames' = [frames EXCEPT ![Len(frames)] =
                          [f EXCEPT !.left_snake = r.snake,
                                    !.occupied_points = r.occupied,
                                    !.scaffold_array = r.scaffold,
                                    !.left_active = r.active]]
          /\ draws' = IF r.branched THEN draws + 2 ELSE draws
    /\ pc' = "right"
    /\ UNCHANGED <<mask, array_shape, return_array, max_recursion_depth, entry, seed,
                   arg_start, used_starts, ret, result, raised, passes, horizon, fes,
                   earlier, builder, placer, http>>

\* variant of BothInactive that is satisfied by one inactive agent
EitherInactive(left_active, right_active) == ~left_active \/ ~right_active

\* line 873: not left_active and not right_active
BothInactive(left_active, right_active) == ~left_active /\ ~right_active

\* lines 871-876: the right agent's step, the loop's exit test and its counter
StepRight ==
    /\ pc = "right"
    /\ Followed(Top)
    /\ LET f == Top
           r == move_step(f.right_snake, mask, f.occupied_points, f.left_snake,
                          f.scaffold_array, array_shape, f.has_array,
                          Rand(draws), Rand(draws + 1))
           stop == BothInactive(f.left_active, r.active)
       IN /\ frames' = [frames EXCEPT ![Len(frames)] =
                          [f EXCEPT !.right_snake = r.snake,
                                    !.occupied_points = r.occupied,
                                    !.scaffold_array = r.scaffold,
                                    !.right_active = r.active,
                                    !.iteration = IF stop THEN f.iteration
                                                  ELSE f.iteration + 1]]
          /\ draws' = IF r.branched THEN draws + 2 ELSE draws
          /\ pc' = IF stop \/ ~LoopContinues(f.iteration + 1) THEN "finish" ELSE "left"
    /\ UNCHANGED <<mask, array_shape, return_array, max_recursion_depth, entry, seed,
                   arg_start, used_starts, ret, result, raised, passes, horizon, fes,
                   earlier, builder, placer, http>>

\* lines 878-911 and 933-934: paths, used start, branches, connectors, crossovers
FinishPass ==
    /\ pc = "finish"
    /\ \E connectors \in generate_random_connectors(mask, Top.scaffold_array, array_shape,
                                                    Top.has_array) :
         LET f == Top
             paths == <<f.left_snake.path, f.right_snake.path>>
             branches == f.left_snake.pink_branches \o f.right_snake.pink_branches
             g == [f EXCEPT !.snake_paths = paths,
                            !.all_pink_branches = branches,
                            !.connector_branches = connectors,
                            !.scaffold_array =
                                IF f.has_array
                                THEN DrawConnectors(f.scaffold_array
                                                      \cup CrossoverCells(paths, array_shape),
                                                    array_shape, connectors, 1)
                                ELSE f.scaffold_array]
         IN IF f.has_array
            THEN /\ frames' = [frames EXCEPT ![Len(frames)] = g]
                 /\ pc' = "recurse"
                 /\ ret' = ret
            ELSE Return(<<paths, branches, connectors>>, SubSeq(frames, 1, Len(frames) - 1))
    /\ used_starts' = Append(used_starts, Top.start_point)
    /\ UNCHANGED <<mask, array_shape, return_array, max_recursion_depth, entry, seed,
                   draws, arg_start, result, raised, passes, horizon, fes,
                   earlier, builder, placer, http>>

FrameResult(f) ==
    <<f.snake_paths, f.scaffold_array, f.all_pink_branches, f.connector_branches>>

NextStart == findEmptySpace(mask, Top.scaffold_array, array_shape, TRUE,
                            default_min_region_size, used_starts, default_min_distance)

\* lines 914, 932: the recursion budget is used up
ReturnNoBudget ==
    /\ pc = "recurse"
    /\ ~BudgetRemains(current_depth, max_recursion_depth)
    /\ Return(FrameResult(Top), SubSeq(frames, 1, Len(frames) - 1))
    /\ UNCHANGED <<mask, array_shape, return_array, max_recursion_depth, entry, seed,
                   draws, arg_start, used_starts, result, raised, passes, horizon, fes,
                   earlier, builder, placer, http>>

\* lines 914-917: findEmptySpace finds no region
ReturnNoRegion ==
    /\ pc = "recurse"
    /\ BudgetRemains(current_depth, max_recursion_depth)
    /\ NextStart = None
    /\ Return(FrameResult(Top), SubSeq(frames, 1, Len(frames) - 1))
    /\ UNCHANGED <<mask, array_shape, return_array, max_recursion_depth, entry, seed,
                   draws, arg_start, used_starts, result, raised, passes, horizon, fes,
                   earlier, builder, placer, http>>

\* lines 914-922: the recursive call at the start findEmptySpace returned
Recurse ==
    /\ pc = "recurse"
    /\ BudgetRemains(current_depth, max_recursion_depth)
    /\ NextStart # None
    /\ arg_start' = NextStart
    /\ pc' = "call"
    /\ UNCHANGED <<mask, array_shape, return_array, max_recursion_depth, entry, seed,
                   draws, frames, used_starts, ret, result, raised, passes, horizon, fes,
                   earlier, builder, placer, http>>

\* variant of MergePaths that puts the paths of the recursive call first
MergePathsChildFirst(snake_paths, additional_paths) == additional_paths \o snake_paths

\* line 925: snake_paths.extend(additional_paths)
MergePaths(snake_paths, additional_paths) == snake_paths \o additional_paths

\* lines 920-932: the recursive call's result unpacked and merged, then returned
Merge ==
    /\ pc = "merge"
    /\ IF Len(ret) = 4
       THEN /\ Return(<<MergePaths(Top.snake_paths, ret[1]),
                        MergeScaffold(Top.scaffold_array, ret[2]),
                        Top.all_pink_branches \o ret[3],
                        Top.connector_branches \o ret[4]>>,
                      SubSeq(frames, 1, Len(frames) - 1))
            /\ UNCHANGED <<result, raised>>
       ELSE /\ raised' = "ValueError"
            /\ result' = None
            /\ pc' = "done"
            /\ frames' = <<>>
            /\ ret' = None
    /\ UNCHANGED <<mask, array_shape, return_array, max_recursion_depth, entry, seed,
                   draws, arg_start, used_starts, passes, horizon, fes,
                   earlier, builder, placer, http>>

\* the caller receives the value: a direct caller keeps the tuple,
\* generate_snake_pattern_legacy (lines 1042-1045) unpacks three components
CallerReceives ==
    /\ pc = "caller"
    /\ pc' = "done"
    /\ IF entry = "legacy"
       THEN IF Len(ret) = 3
            THEN result' = ret[1] /\ raised' = raised
            ELSE result' = None /\ raised' = "ValueError"
       ELSE result' = ret /\ raised' = raised
    /\ UNCHANGED <<mask, array_shape, return_array, max_recursion_depth, entry, seed,
                   draws, frames, arg_start, used_starts, ret, passes, horizon, fes,
                   earlier, builder, placer, http>>

(***************************************************************************)
(* The inputs of the model                                                 *)
(***************************************************************************)
Mask(w, h, rects) == [w |-> w, h |-> h, rects |-> rects]

\* the x-intervals a row of a band mask can consist of
RowPatterns ==
    { {},
      {<<0, BandW - 1>>},
      {<<0, BandW \div 2 - 1>>},
      {<<BandW \div 2, BandW - 1>>},
      {<<0, 1>>, <<BandW - 2, BandW - 1>>},
      {<<BandW \div 2, BandW \div 2>>} }

\* rows 0..BandSplit-1 follow pattern A, rows BandSplit..BandH-1 follow pattern B
BandMask(A, B) ==
    Mask(BandW, BandH, {<<i[1], 0, i[2], BandSplit - 1>> : i \in A}
                         \cup {<<i[1], BandSplit, i[2], BandH - 1>> : i \in B})

BandMasks == {BandMask(A, B) : A \in RowPatterns, B \in RowPatterns}

\* a 5x5 island far above the bottom margin
IslandMask == Mask(9, 20, {<<2, 1, 6, 5>>})

\* a 5x5 island 40 columns away from a blob: far from the first start, too small
FarIslandMask == Mask(50, 14, {<<0, 0, 11, 13>>, <<40, 1, 44, 5>>})

\* k blobs of 12 columns, 40 columns apart; the first one starts one row higher
BlobMask(k) ==
    Mask(40 * k, 14, {<<40 * i, IF i = 0 THEN 0 ELSE 1, 40 * i + 11, 13>> : i \in 0..(k - 1)})

\* two tall blobs 40 columns apart: the second one, 10 columns wide, is found by
\* findEmptySpace and filled by a recursive pass
TwinMask == Mask(50, 30, {<<0, 0, 11, 29>>, <<40, 1, 49, 29>>})

\* a stem one pixel wide over a bar of four rows that reaches the bottom margin:
\* the topmost point has no room, the bar's first row is wide enough to re-anchor
StemMask(stem) ==
    Mask(31, stem + 4 + bottom_margin - 1, {<<15, 0, 15, stem - 1>>, <<0, stem, 30, stem + 3>>})

\* a shape whose top row is two pixels around a gap, over one short row
NotchMask == Mask(12, 20, {<<4, 8, 4, 8>>, <<6, 8, 6, 8>>, <<5, 9, 10, 9>>})

\* the band mask that is one filled rectangle
FullBand == BandMask({<<0, BandW - 1>>}, {<<0, BandW - 1>>})

\* the filled 100x100 rectangle
RectMask == Mask(100, 100, {<<0, 0, 99, 99>>})

Scenario(m, shape, ra, depth, e, hz) ==
    [mask |-> m, array_shape |-> shape, return_array |-> ra,
     max_recursion_depth |-> depth, entry |-> e, horizon |-> hz]

\* a direct call with the occupancy grid at the mask's resolution
Direct(m, ra, depth, hz) == Scenario(m, <<m.h, m.w>>, ra, depth, "generate", hz)

\* a direct call with an occupancy grid of twice the mask's resolution
Scaled(m, depth, hz) == Scenario(m, <<2 * m.h, 2 * m.w>>, TRUE, depth, "generate", hz)

\* generate_snake_pattern_legacy(mask): return_array=False, default arguments
Legacy(m, hz) == Scenario(m, <<300, 300>>, FALSE, default_recursion_depth, "legacy", hz)

\* the band and blob masks are followed for MaxIter iterations of each pass, the
\* island and the rectangle to the end of the run
Scenarios ==
    {Direct(m, ra, default_recursion_depth, MaxIter) : m \in BandMasks, ra \in BOOLEAN}
    \cup {Legacy(m, MaxIter) : m \in BandMasks}
    \cup {Direct(BlobMask(k), TRUE, d, MaxIter) :
             k \in 1..MaxBlobs, d \in {0, 1, default_recursion_depth}}
    \cup {Direct(FarIslandMask, TRUE, default_recursion_depth, MaxIter)}
    \cup {Direct(TwinMask, TRUE, 1, MaxIter)}
    \cup {Scaled(FullBand, 0, MaxIter)}
    \cup {Direct(NotchMask, TRUE, 0, MaxIter)}
    \cup {Direct(StemMask(stem), TRUE, 1, MaxIter) :
             stem \in {probe_first_offset, default_min_distance}}
    \cup {Direct(IslandMask, TRUE, default_recursion_depth, max_iterations)}
    \cup {Direct(RectMask, TRUE, 0, max_iterations)}

Seeds == [1..SeedLen -> {1, 2}]

\* the agents on the 5x5 island never collide, so that run draws no random number
\* and one seed stands for all
ScenarioSeeds(sc) ==
    IF sc.mask = IslandMask THEN {[i \in 1..SeedLen |-> 1]} ELSE Seeds

FesOff == [phase |-> "off"]

BuilderOff == [phase |-> "off"]

PlacerOff == [phase |-> "off"]

HttpOff == [phase |-> "off"]

(***************************************************************************)
(* findEmptySpace on its own: every mask over FesCells pixels              *)
(***************************************************************************)
FesW == FesRowLen

FesH == (FesCells + FesRowLen - 1) \div FesRowLen

FesPixels == {<<k % FesRowLen, k \div FesRowLen>> : k \in 0..(FesCells - 1)}

FesMasks == {Mask(FesW, FesH, {<<p[1], p[2], p[1], p[2]>> : p \in S}) : S \in SUBSET FesPixels}

\* nothing drawn, everything drawn, exactly the shape drawn, one column drawn
FesScaffolds(m) ==
    { {}, (0..(FesW - 1)) \X (0..(FesH - 1)), ShapePixels(m), {1} \X (0..(FesH - 1)) }

FesStarts ==
    { <<>>, <<<<0, 0>>>>, <<<<1, 1>>>>, <<<<FesW - 1, 0>>, <<0, FesH - 1>>>> }

FesCall ==
    /\ fes.phase = "input"
    /\ fes' = [fes EXCEPT !.phase = "done",
                          !.found = findEmptySpace(fes.mask, fes.scaffold,
                                                   <<fes.mask.h, fes.mask.w>>, TRUE,
                                                   fes.min_region_size, fes.used_starts,
                                                   fes.min_distance)]
    /\ UNCHANGED <<mask, array_shape, return_array, max_recursion_depth, entry, seed, draws,
                   pc, frames, arg_start, used_starts, ret, result, raised, passes, horizon,
                   earlier, builder, placer, http>>

InitFES ==
    /\ \E m \in FesMasks :
         \E a \in FesScaffolds(m), n \in {1, 3}, u \in FesStarts, d \in {1, 2} :
             fes = [phase |-> "input", mask |-> m, scaffold |-> a, min_region_size |-> n,
                    used_starts |-> u, min_distance |-> d, found |-> None]
    /\ mask = Mask(0, 0, {})
    /\ array_shape = <<0, 0>>
    /\ return_array = TRUE
    /\ max_recursion_depth = 0
    /\ entry = "findEmptySpace"
    /\ seed = <<>>
    /\ draws = 0
    /\ pc = "harness"
    /\ frames = <<>>
    /\ arg_start = None
    /\ used_starts = <<>>
    /\ earlier = <<>>
    /\ builder = BuilderOff
    /\ placer = PlacerOff
    /\ http = HttpOff
    /\ ret = None
    /\ result = None
    /\ raised = ""
    /\ passes = 0
    /\ horizon = 0

NextFES == FesCall

SpecFES == InitFES /\ [][NextFES]_vars

(***************************************************************************)
(* calculate_bump_height and find_snake_midpoint on their own               *)
(***************************************************************************)
\* the collision points of the harness: far enough from the axes for both windows
BuilderPoints ==
    {<<bump_search_radius, bump_search_radius>>,
     <<bump_search_radius + 1, bump_search_radius + midpoint_search_radius>>}

\* the points that can be occupied around collision point c: c itself, neighbours
\* at equal and at different distances, the corner and the outside of the midpoint
\* window, the rim and the outside of the bump window
BuilderPool(c) ==
    {c,
     <<c[1] + 1, c[2]>>, <<c[1], c[2] - 1>>, <<c[1], c[2] + 2>>,
     <<c[1] - midpoint_search_radius, c[2]>>,
     <<c[1] + midpoint_search_radius, c[2] + midpoint_search_radius>>,
     <<c[1] + midpoint_search_radius + 1, c[2]>>,
     <<c[1], c[2] - bump_search_radius>>, <<c[1], c[2] + bump_search_radius>>,
     <<c[1] + bump_search_radius, c[2]>>,
     <<c[1] + bump_search_radius + 1, c[2] + 1>>,
     <<c[1], c[2] + bump_search_radius + 1>>}

BumpCall ==
    /\ builder.phase = "input"
    /\ builder' = [builder EXCEPT
                     !.phase = "bump",
                     !.bump_height = calculate_bump_height(builder.collision[1],
                                                           builder.collision[2],
                                                           builder.occupied_points)]
    /\ UNCHANGED <<mask, array_shape, return_array, max_recursion_depth, entry, seed, draws,
                   pc, frames, arg_start, used_starts, ret, result, raised, passes, horizon,
                   fes, earlier, placer, http>>

MidpointCall ==
    /\ builder.phase = "bump"
    /\ builder' = [builder EXCEPT
                     !.phase = "done",
                     !.midpoint = find_snake_midpoint(builder.collision[1],
                                                      builder.collision[2],
                                                      builder.occupied_points)]
    /\ UNCHANGED <<mask, array_shape, return_array, max_recursion_depth, entry, seed, draws,
                   pc, frames, arg_start, used_starts, ret, result, raised, passes, horizon,
                   fes, earlier, placer, http>>

InitBuilder ==
    /\ \E c \in BuilderPoints : \E occ \in SUBSET BuilderPool(c) :
         builder = [phase |-> "input", collision |-> c, occupied_points |-> occ,
                    bump_height |-> 0, midpoint |-> None]
    /\ fes = FesOff
    /\ placer = PlacerOff
    /\ http = HttpOff
    /\ mask = Mask(0, 0, {})
    /\ array_shape = <<0, 0>>
    /\ return_array = TRUE
    /\ max_recursion_depth = 0
    /\ entry = "create_pink_branch"
    /\ seed = <<>>
    /\ draws = 0
    /\ pc = "harness"
    /\ frames = <<>>
    /\ arg_start = None
    /\ used_starts = <<>>
    /\ earlier = <<>>
    /\ ret = None
    /\ result = None
    /\ raised = ""
    /\ passes = 0
    /\ horizon = 0

NextBuilder ==
    \/ BumpCall
    \/ MidpointCall

SpecBuilder == InitBuilder /\ [][NextBuilder]_vars

(***************************************************************************)
(* generate_random_connectors on its own                                   *)
(***************************************************************************)
\* the masks of the harness: a filled square, the square with a bay in its right edge
\* (rows 5..9) and no shape at all
PlacerMasks ==
    {Mask(24, 24, {<<0, 0, 23, 23>>}),
     Mask(24, 24, {<<0, 0, 19, 23>>, <<20, 0, 23, 4>>, <<20, 10, 23, 23>>}),
     Mask(24, 24, {})}

\* the filled cells of a grid: the columns xs of the rows ys
Rows(ys, xs, shape) == {c \in xs \X ys : InArray(shape, c[1], c[2])}

\* the grids of the harness: rows too close, far enough, with and without enough
\* common columns
PlacerGrids(shape) ==
    {Rows(ys, xs, shape) :
       ys \in {{}, {3, 11, 19}, {3, 10, 19}, {10, 18, 34}, {11, 19}},
       xs \in {0..23, (2..14) \cup {22}, 0..12}}

\* the outcomes of random.randint(4, 8), one per selected position
LensTapes(n) ==
    {[k \in 1..n |-> connector_arm_min
                        + ((a * k + b) % (connector_arm_max - connector_arm_min + 1))] :
       a, b \in 0..(connector_arm_max - connector_arm_min)}

\* the outcomes of random.choice(['left', 'right']), one per selected position
DirTapes(n) ==
    {[k \in 1..n |-> IF (c + d * k) % 2 = 0 THEN "left" ELSE "right"] : c, d \in 0..1}

\* outcomes of random.sample: the positions from the s-th on, cyclically
SampleOrders(n) ==
    IF n > connector_cap
    THEN {[k \in 1..connector_cap |-> ((k + s) % n) + 1] : s \in 0..(n - 1)}
    ELSE {<<>>}

\* lines 1067-1315: one call of generate_random_connectors
PlaceCall ==
    /\ placer.phase = "input"
    /\ LET m == placer.mask
           a == placer.scaffold_array
           shape == placer.array_shape
       IN \E valid \in {IF NothingToConnect(m, a, placer.has_array) THEN <<>>
                         ELSE valid_positions(m, a, shape)} :
            \E f \in SampleOrders(Len(valid)) :
              \E selected \in {Sample(valid, f)} :
                \E lens \in LensTapes(Len(selected)), dirs \in DirTapes(Len(selected)) :
                  placer' = [placer EXCEPT
                               !.phase = "done",
                               !.valid_positions = valid,
                               !.selected_positions = selected,
                               !.lens = lens,
                               !.dirs = dirs,
                               !.connectors = PlacedConnectors(m, a, shape, selected,
                                                               lens, dirs, 1)]
    /\ UNCHANGED <<mask, array_shape, return_array, max_recursion_depth, entry, seed, draws,
                   pc, frames, arg_start, used_starts, ret, result, raised, passes, horizon,
                   fes, earlier, builder, http>>

PlacerInput(m, shape, a, has_array) ==
    [phase |-> "input", mask |-> m, array_shape |-> shape, scaffold_array |-> a,
     has_array |-> has_array, valid_positions |-> <<>>, selected_positions |-> <<>>,
     lens |-> <<>>, dirs |-> <<>>, connectors |-> <<>>]

\* a 300x300 grid with 22 populated rows eight apart over a filled 30x32 mask: one
\* valid position more than the cap
CapInput ==
    PlacerInput(Mask(30, 32, {<<0, 0, 29, 31>>}), <<300, 300>>,
                Rows({70 + 8 * k : k \in 0..(connector_cap + 1)}, 140..153, <<300, 300>>),
                TRUE)

InitConnectors ==
    /\ \/ \E m \in PlacerMasks, shape \in {<<24, 24>>, <<48, 24>>} :
            \E a \in PlacerGrids(shape), has_array \in BOOLEAN :
                placer = PlacerInput(m, shape, a, has_array)
       \/ placer = CapInput
    /\ fes = FesOff
    /\ builder = BuilderOff
    /\ http = HttpOff
    /\ mask = Mask(0, 0, {})
    /\ array_shape = <<0, 0>>
    /\ return_array = TRUE
    /\ max_recursion_depth = 0
    /\ entry = "generate_random_connectors"
    /\ seed = <<>>
    /\ draws = 0
    /\ pc = "harness"
    /\ frames = <<>>
    /\ arg_start = None
    /\ used_starts = <<>>
    /\ earlier = <<>>
    /\ ret = None
    /\ result = None
    /\ raised = ""
    /\ passes = 0
    /\ horizon = 0

SpecConnectors == InitConnectors /\ [][PlaceCall]_vars

(***************************************************************************)
(* The /generate request handler of fastAPI.py (fast.py holds the same     *)
(* handler) and process_existing_image of main.py                          *)
(***************************************************************************)
\* main.py lines 7-106: the exception run_snake_pattern_analysis ends with ("" if
\* none).  It calls generate_snake_pattern with the keyword enable_gap_filling and
\* unpacks two values from what the call returns with return_array=True.
run_snake_pattern_analysis(returned) ==
    LET parameters == {"mask", "array_shape", "return_array", "startPoint",
                       "max_recursion_depth", "current_depth", "used_starts"}
        keywords == {"array_shape", "return_array", "enable_gap_filling"}
    IN IF ~(keywords \subseteq parameters) THEN "TypeError"
       ELSE IF Len(returned) # 2 THEN "ValueError"
       ELSE ""

\* main.py lines 149-177: exists is os.path.exists(image_path), readable is whether
\* load_shape_image returns a mask, returned is what generate_snake_pattern would return
process_existing_image(exists, readable, returned) ==
    IF ~exists THEN <<None, None, None>>
    ELSE IF ~readable THEN <<None, None, None>>
    ELSE IF run_snake_pattern_analysis(returned) # "" THEN <<None, None, None>>
    ELSE <<"mask", "snake_paths", "result_file">>

\* variant of ResultCheck that takes three components for a success
ResultCheckAtLeastThree(res) ==
    IF res # <<>> /\ Len(res) >= 3 THEN "success" ELSE "error"

\* fastAPI.py lines 33-57: the status of the answer, or the exception of the unpacking
\* when the result has more than four components
ResultCheck(res) ==
    IF res # <<>> /\ Len(res) >= 4
    THEN IF Len(res) = 4 THEN "success" ELSE "ValueError"
    ELSE "error"

\* fastAPI.py lines 22-57: one request.  generate_pollinations_image saves the image,
\* gets another HTTP status than 200, or raises; its return value is not used
generate_pattern ==
    /\ http.phase = "request"
    /\ IF http.fetch = "raises"
       THEN http' = [http EXCEPT !.phase = "failed"]
       ELSE LET res == process_existing_image(http.file_before \/ http.fetch = "saved",
                                               http.readable, http.returned)
            IN http' = [http EXCEPT !.phase = "responded",
                                    !.result = res,
                                    !.status = ResultCheck(res)]
    /\ UNCHANGED <<mask, array_shape, return_array, max_recursion_depth, entry, seed, draws,
                   pc, frames, arg_start, used_starts, ret, result, raised, passes, horizon,
                   fes, earlier, builder, placer>>

\* the result check of the handler applied to a tuple of any length
ResultCheckCall ==
    /\ http.phase # "off"
    /\ http.checked = ""
    /\ http' = [http EXCEPT !.checked = ResultCheck(http.probe)]
    /\ UNCHANGED <<mask, array_shape, return_array, max_recursion_depth, entry, seed, draws,
                   pc, frames, arg_start, used_starts, ret, result, raised, passes, horizon,
                   fes, earlier, builder, placer>>

InitHandler ==
    /\ \E prompt \in {"leaf", "star"}, fetch \in {"saved", "status", "raises"},
          file_before \in BOOLEAN, readable \in BOOLEAN, n \in 0..5, r \in {3, 4} :
            http = [phase |-> "request", prompt |-> prompt, fetch |-> fetch,
                    file_before |-> file_before, readable |-> readable,
                    returned |-> [i \in 1..r |-> None],
                    probe |-> [i \in 1..n |-> None],
                    result |-> None, status |-> "", checked |-> ""]
    /\ fes = FesOff
    /\ builder = BuilderOff
    /\ placer = PlacerOff
    /\ mask = Mask(0, 0, {})
    /\ array_shape = <<0, 0>>
    /\ return_array = TRUE
    /\ max_recursion_depth = 0
    /\ entry = "generate_pattern"
    /\ seed = <<>>
    /\ draws = 0
    /\ pc = "harness"
    /\ frames = <<>>
    /\ arg_start = None
    /\ used_starts = <<>>
    /\ earlier = <<>>
    /\ ret = None
    /\ result = None
    /\ raised = ""
    /\ passes = 0
    /\ horizon = 0

SpecHandler == InitHandler /\ [][generate_pattern \/ ResultCheckCall]_vars

Init ==
    /\ \E sc \in Scenarios :
         /\ mask = sc.mask
         /\ array_shape = sc.array_shape
         /\ return_array = sc.return_array
         /\ max_recursion_depth = sc.max_recursion_depth
         /\ entry = sc.entry
         /\ horizon = sc.horizon
         /\ seed \in ScenarioSeeds(sc)
    /\ draws = 0
    /\ pc = "call"
    /\ frames = <<>>
    /\ arg_start = None
    /\ used_starts = <<>>
    /\ earlier = <<>>
    /\ builder = BuilderOff
    /\ placer = PlacerOff
    /\ http = HttpOff
    /\ ret = None
    /\ result = None
    /\ raised = ""
    /\ passes = 0
    /\ fes = FesOff

Next ==
    \/ CallEmpty
    \/ CallStart
    \/ StepLeft
    \/ StepRight
    \/ FinishPass
    \/ ReturnNoBudget
    \/ ReturnNoRegion
    \/ Recurse
    \/ Merge
    \/ CallerReceives

Spec == Init /\ [][Next]_vars

(***************************************************************************)
(* The same call made twice with the random source seeded alike            *)
(***************************************************************************)
\* variant of FreshUsedStarts: the list of the earlier call is used again
KeptUsedStarts(us) == us

\* lines 788-789: a call without used_starts gets a new empty list
FreshUsedStarts(us) == <<>>

\* the caller keeps the outcome, seeds the random source as before and calls again
\* with the same arguments
CallAgain ==
    /\ pc = "done"
    /\ earlier = <<>>
    /\ earlier' = <<[result |-> result, raised |-> raised]>>
    /\ pc' = "call"
    /\ frames' = <<>>
    /\ arg_start' = None
    /\ used_starts' = FreshUsedStarts(used_starts)
    /\ ret' = None
    /\ result' = None
    /\ raised' = ""
    /\ passes' = 0
    /\ draws' = 0
    /\ UNCHANGED <<mask, array_shape, return_array, max_recursion_depth, entry, seed,
                   horizon, fes, builder, placer, http>>

NextReplay ==
    \/ Next
    \/ CallAgain

SpecReplay == Init /\ [][NextReplay]_vars

(***************************************************************************)
(* The first pass made twice with the random source seeded differently     *)
(***************************************************************************)
\* the loop of the outermost pass has ended (no agent of a recursive pass draws a
\* random number) and random numbers were drawn in it; the caller keeps the pass as it
\* stands, seeds the random source with a sequence that differs in one outcome and
\* calls again with the same arguments (any two sequences are linked by such changes,
\* and every sequence is the seed of a first call)
Reseed ==
    /\ pc = "finish"
    /\ Len(frames) = 1
    /\ draws > 0
    /\ earlier = <<>>
    /\ earlier' = <<[frame |-> Top, seed |-> seed, draws |-> draws]>>
    /\ seed' \in {sd \in Seeds : Cardinality({i \in 1..SeedLen : sd[i] # seed[i]}) = 1}
    /\ pc' = "call"
    /\ frames' = <<>>
    /\ arg_start' = None
    /\ used_starts' = FreshUsedStarts(used_starts)
    /\ ret' = None
    /\ result' = None
    /\ raised' = ""
    /\ passes' = 0
    /\ draws' = 0
    /\ UNCHANGED <<mask, array_shape, return_array, max_recursion_depth, entry,
                   horizon, fes, builder, placer, http>>

NextReseed ==
    \/ Next
    \/ Reseed

SpecReseed == Init /\ [][NextReseed]_vars

(***************************************************************************)
(* Properties                                                              *)
(***************************************************************************)
\* the agents of the live passes
LiveSnakes == UNION {{frames[k].left_snake, frames[k].right_snake} : k \in 1..Len(frames)}

\* the snake paths handed to the caller
ResultPaths == IF entry = "legacy" THEN result ELSE result[1]

Returned == pc = "done" /\ raised = ""

\* C1: every point of every returned snake path, the first one included, lies inside
\* the shape mask.
C1_ReturnedPathsInsideShape ==
    Returned =>
        \A k \in 1..Len(ResultPaths) : \A i \in 1..Len(ResultPaths[k]) :
            is_point_in_shape(mask, ResultPaths[k][i][1], ResultPaths[k][i][2])

\* C2: within a pass no point other than the shared start is appended to both agents'
\* paths.
C2_SiblingsShareNoCell ==
    \A k \in 1..Len(frames) :
        LET l == frames[k].left_snake.path
            r == frames[k].right_snake.path
        IN \A i \in 2..Len(l), j \in 2..Len(r) : l[i] = r[j] => l[i] = frames[k].start

\* C3: a run with recursion budget d starts at most d + 1 passes, one per depth 0..d,
\* each pass runs at most max_iterations loop iterations, and generate_snake_pattern
\* raises nothing.
C3_BoundedPassesAndIterations ==
    /\ passes <= max_recursion_depth + 1
    /\ Len(frames) <= max_recursion_depth + 1
    /\ \A k \in 1..Len(frames) : frames[k].iteration <= max_iterations
    /\ entry = "generate" => raised = ""

\* a run that used its whole budget of 3: four passes, then the return
C3_Witness == pc = "done" /\ max_recursion_depth = default_recursion_depth /\ passes = 4

\* C4: on a mask with no inside pixels the call returns, without raising, the four
\* components (paths = [], occupancy = all zero, branches = [], connectors = []).
C4_EmptyMaskFourComponents ==
    (pc = "done" /\ ShapePixels(mask) = {}) =>
        /\ raised = ""
        /\ (entry = "generate" /\ return_array) => result = <<<<>>, {}, <<>>, <<>>>>

\* the occupancy grid inside a returned value
GridOf(v) == IF return_array /\ Len(v) >= 2 THEN v[2] ELSE {}

\* every cell that is 1 in some grid of the run
RunCells ==
    UNION {frames[k].scaffold_array : k \in 1..Len(frames)} \cup GridOf(ret) \cup GridOf(result)

\* C5: occupancy writes are monotonic: a cell that is 1 stays 1 in its grid, in the
\* grid returned by its pass, in the merged grid and in the grid handed to the caller.
C5_OccupancyMonotonic ==
    [][/\ \A k \in 1..Len(frames) :
             k <= Len(frames') => frames[k].scaffold_array \subseteq frames'[k].scaffold_array
       /\ RunCells \subseteq RunCells']_vars

\* a merged grid holding the cells of two passes has been returned
C5_Witness ==
    /\ pc = "done" /\ passes >= 2 /\ return_array
    /\ Len(result) = 4 /\ Cardinality(result[2]) > 10

SqDist(p, q) == (p[1] - q[1]) * (p[1] - q[1]) + (p[2] - q[2]) * (p[2] - q[2])

\* C6: findEmptySpace never returns a point closer than min_distance to a used start.
C6_FoundFarFromUsedStarts ==
    (fes.phase = "done" /\ fes.found # None) =>
        \A i \in 1..Len(fes.used_starts) :
            SqDist(fes.found, fes.used_starts[i]) >= fes.min_distance * fes.min_distance

\* the first region was large enough but too close; a later region was returned
C6_Witness ==
    /\ fes.phase = "done" /\ fes.found # None /\ Len(fes.used_starts) >= 1
    /\ LET E == empty_areas(fes.mask, fes.scaffold, <<fes.mask.h, fes.mask.w>>)
           R == FloodFill({FirstScanned(E)}, {FirstScanned(E)}, E)
       IN /\ Cardinality(R) >= fes.min_region_size
          /\ too_close(RegionStart(R), fes.used_starts, fes.min_distance)

\* C7: findEmptySpace returns None when every inside pixel is occupied.
C7_FullyOccupiedGivesNone ==
    (fes.phase = "done" /\ ShapePixels(fes.mask) \subseteq fes.scaffold) => fes.found = None

\* a non-empty shape, fully occupied, large enough and with no used start
C7_Witness ==
    /\ fes.phase = "done" /\ ShapePixels(fes.mask) \subseteq fes.scaffold
    /\ Cardinality(ShapePixels(fes.mask)) >= fes.min_region_size
    /\ fes.used_starts = <<>> /\ fes.found = None

\* C8: the start of a recursive pass is the start point of an empty 4-connected region
\* of at least min_region_size pixels (the region has a pixel on the row of its start
\* point); the mask whose only island is 5x5 = 25 pixels gets exactly one pass.
C8_SmallRegionsStartNoPass ==
    /\ (pc = "call" /\ frames # <<>>) =>
          LET E == empty_areas(mask, Top.scaffold_array, array_shape)
          IN \E p \in {q \in E : q[2] = arg_start[2]} :
                 LET R == FloodFill({p}, {p}, E)
                 IN /\ Cardinality(R) >= default_min_region_size
                    /\ RegionStart(R) = arg_start
    /\ mask = IslandMask => passes <= 1

\* the 5x5 island: one pass, returned with part of the island still empty
C8_Witness ==
    /\ pc = "done" /\ mask = IslandMask /\ passes = 1
    /\ ShapePixels(mask) \ result[2] # {}

\* C9: along every snake path y never decreases.
C9_PathYNonDecreasing ==
    \A s \in LiveSnakes : \A i \in 1..(Len(s.path) - 1) : s.path[i + 1][2] >= s.path[i][2]

\* an agent that collided, branched, descended and swept again
C9_Witness ==
    \E s \in LiveSnakes :
        /\ s.pink_branches # <<>>
        /\ s.state = "to_edge"
        /\ s.path[Len(s.path)][2] >= 2 * down_pixels

\* C10: on the filled 100x100 rectangle point i of the left path is the mirror image
\* of point i of the right path about the vertical centerline, up to rounding.
C10_RectanglePathsMirror ==
    mask = RectMask =>
        \A k \in 1..Len(frames) :
            LET l == frames[k].left_snake.path
                r == frames[k].right_snake.path
            IN \A i \in 1..Min2(Len(l), Len(r)) :
                   /\ l[i][2] = r[i][2]
                   /\ Abs(l[i][1] + r[i][1] - (mask.w - 1)) <= 1

\* C11: on the filled 100x100 rectangle no sibling collision is detected in the first
\* pass: no agent ever holds a collision branch and the returned list of branches is
\* empty.
C11_RectangleNoBranches ==
    mask = RectMask =>
        /\ \A s \in LiveSnakes : s.pink_branches = <<>>
        /\ Returned => result[3] = <<>>

C13_TerminatedAgentFrozen ==
    [][(pc \in {"left", "right"} /\ Len(frames') = Len(frames)) =>
          /\ ~Top.left_active => frames'[Len(frames)].left_snake = Top.left_snake
          /\ ~Top.right_active => frames'[Len(frames)].right_snake = Top.right_snake]_vars

UnitVectors == {<<1, 0>>, <<-1, 0>>, <<0, 1>>, <<0, -1>>}

Heading(s) == <<s.dx, s.dy>>

\* C14: the direction of every agent is one of the four axis-aligned unit vectors;
\* turn_90_right maps (dx, dy) to (-dy, dx), turn_90_left maps it to (dy, -dx), each
\* undoes the other and four equal turns give the direction back.
C14_AxisAlignedDirections ==
    \A s \in LiveSnakes :
        /\ Heading(s) \in UnitVectors
        /\ Heading(turn_90_right(s)) = <<-s.dy, s.dx>>
        /\ Heading(turn_90_left(s)) = <<s.dy, -s.dx>>
        /\ turn_90_left(turn_90_right(s)) = s
        /\ turn_90_right(turn_90_left(s)) = s
        /\ turn_90_right(turn_90_right(turn_90_right(turn_90_right(s)))) = s
        /\ turn_90_left(turn_90_left(turn_90_left(turn_90_left(s)))) = s

\* both agents are in a descent, one after a right turn and one after a left turn
C14_Witness ==
    \E f \in {frames[k] : k \in 1..Len(frames)} :
        /\ f.left_snake.state = "turn_right_down" /\ Heading(f.left_snake) = <<0, -1>>
        /\ f.right_snake.state = "turn_left_down" /\ Heading(f.right_snake) \in UnitVectors
        /\ Len(f.right_snake.path) > 10

\* the bounding box of a region
RegionWidth(R) == SetMax({p[1] : p \in R}) - SetMin({p[1] : p \in R}) + 1

RegionHeight(R) == SetMax({p[2] : p \in R}) - SetMin({p[2] : p \in R}) + 1

\* C15: a point returned by findEmptySpace is the start of an empty region whose area
\* is at least min_region_size, whose bounding box is at least 2 wide and 2 high (the
\* smallest minimum dimension that excludes anything), and it is farther than
\* min_distance from every used start.
C15_RegionQualifies ==
    (fes.phase = "done" /\ fes.found # None) =>
        LET E == empty_areas(fes.mask, fes.scaffold, <<fes.mask.h, fes.mask.w>>)
        IN \E p \in E :
               LET R == FloodFill({p}, {p}, E)
               IN /\ RegionStart(R) = fes.found
                  /\ Cardinality(R) >= fes.min_region_size
                  /\ RegionWidth(R) >= 2
                  /\ RegionHeight(R) >= 2
                  /\ \A i \in 1..Len(fes.used_starts) :
                         SqDist(fes.found, fes.used_starts[i])
                           > fes.min_distance * fes.min_distance

\* C16: when findEmptySpace is invoked after the pass at depth k, the grid it reads
\* holds every cell drawn by the passes at depths 0..k, and the start it returns is
\* not a cell an earlier pass has drawn.
C16_FinderReadsEveryPass ==
    /\ (pc = "recurse" /\ BudgetRemains(current_depth, max_recursion_depth)) =>
          \A k \in 1..Len(frames) : frames[k].scaffold_array \subseteq Top.scaffold_array
    /\ (pc = "call" /\ frames # <<>>) =>
          \A k \in 1..Len(frames) :
              <<ScaleX(mask, array_shape, arg_start[1]),
                ScaleY(mask, array_shape, arg_start[2])>> \notin frames[k].scaffold_array

\* C17: every snake path is continuous and self-avoiding: consecutive points differ
\* by (step_size, 0), (-step_size, 0) or (0, 1), and no point occurs twice in a path.
C17_PathsContinuousSelfAvoiding ==
    \A s \in LiveSnakes :
        /\ \A i \in 1..(Len(s.path) - 1) :
               <<s.path[i + 1][1] - s.path[i][1], s.path[i + 1][2] - s.path[i][2]>>
                 \in {<<step_size, 0>>, <<-step_size, 0>>, <<0, 1>>}
        /\ \A i, j \in 1..Len(s.path) : i # j => s.path[i] # s.path[j]

(***************************************************************************)
(* One call of move_step, seen from the loop: the agent whose turn it is   *)
(***************************************************************************)
Stepper == IF pc = "left" THEN Top.left_snake ELSE Top.right_snake

Sibling == IF pc = "left" THEN Top.right_snake ELSE Top.left_snake

StepperAfter ==
    IF pc = "left" THEN frames'[Len(frames)].left_snake ELSE frames'[Len(frames)].right_snake

ActiveAfter ==
    IF pc = "left" THEN frames'[Len(frames)].left_active ELSE frames'[Len(frames)].right_active

\* the call gets past the two early returns and finds the agent in state "to_edge"
StepsInToEdge ==
    /\ pc \in {"left", "right"}
    /\ Stepper.state = "to_edge"
    /\ Stepper.current_y < mask.h - bottom_margin
    /\ ~(Stepper.current_y % (3 * down_pixels) = 0
         /\ \A x \in 0..(mask.w - 1) : ~is_point_in_shape(mask, x, Stepper.current_y))

Target ==
    <<Stepper.current_x + Stepper.dx * step_size, Stepper.current_y + Stepper.dy * step_size>>

TargetInside ==
    /\ 0 <= Target[1] /\ Target[1] < mask.w
    /\ 0 <= Target[2] /\ Target[2] < mask.h
    /\ \E r \in mask.rects : InRect(r, Target[1], Target[2])

TargetCollides ==
    \E i \in 1..Len(Sibling.path) :
        i > Len(Sibling.path) - collision_window /\ Sibling.path[i] = Target

Cell(p) == <<ScaleX(mask, array_shape, p[1]), ScaleY(mask, array_shape, p[2])>>

\* C18: a step in state to_edge targets the cell step_size ahead and is accepted iff
\* the cell is in bounds, inside the shape and not among the sibling's last 8 points;
\* on acceptance, and only then, the point is appended to the path, added to the
\* occupied points and the segment from the previous point is drawn into the grid;
\* every path point's scaled cell is 1 in the grid of its pass.
C18_ToEdgeStep ==
    /\ [](\A k \in 1..Len(frames) :
            frames[k].has_array =>
                \A s \in {frames[k].left_snake, frames[k].right_snake} :
                    \A i \in 1..Len(s.path) : Cell(s.path[i]) \in frames[k].scaffold_array)
    /\ [][StepsInToEdge =>
            LET g == frames'[Len(frames)]
                accepted == TargetInside /\ ~TargetCollides
                segment == draw_line_in_array({}, array_shape,
                                              Cell(<<Stepper.current_x, Stepper.current_y>>)[1],
                                              Cell(<<Stepper.current_x, Stepper.current_y>>)[2],
                                              Cell(Target)[1], Cell(Target)[2])
            IN /\ accepted <=> StepperAfter.path = Append(Stepper.path, Target)
               /\ accepted =>
                    /\ <<StepperAfter.current_x, StepperAfter.current_y>> = Target
                    /\ g.occupied_points = Top.occupied_points \cup {Target}
                    /\ Top.has_array =>
                          g.scaffold_array = Top.scaffold_array \cup segment
                    /\ ActiveAfter
               /\ ~accepted =>
                    /\ StepperAfter.path = Stepper.path
                    /\ g.occupied_points = Top.occupied_points
                    /\ g.scaffold_array = Top.scaffold_array]_vars

\* a grid of twice the mask's resolution after an accepted horizontal step and a descent
C18_Witness ==
    /\ frames # <<>> /\ Top.has_array /\ array_shape = <<2 * mask.h, 2 * mask.w>>
    /\ Len(Top.right_snake.path) >= 4
    /\ Top.right_snake.path[2] = <<Top.start[1] + step_size, Top.start[2]>>
    /\ Cell(Top.right_snake.path[2]) \in Top.scaffold_array

\* the direction after a quarter turn to the side named by bias
TurnedToward(s, bias) == IF bias = "right" THEN <<-s.dy, s.dx>> ELSE <<s.dy, -s.dx>>

TurnDownState(bias) == IF bias = "right" THEN "turn_right_down" ELSE "turn_left_down"

\* C19: when the target of a step in state to_edge is outside the shape or the mask,
\* the agent turns 90 degrees toward its bias, enters the turn-down state of that bias
\* with down_counter 0; its position, path, bias, the occupied points and the grid
\* are unchanged and the call returns active.
C19_BoundaryRejection ==
    [][(StepsInToEdge /\ ~TargetInside) =>
          /\ StepperAfter =
                [Stepper EXCEPT !.dx = TurnedToward(Stepper, Stepper.turn_type)[1],
                                !.dy = TurnedToward(Stepper, Stepper.turn_type)[2],
                                !.state = TurnDownState(Stepper.turn_type),
                                !.down_counter = 0]
          /\ frames'[Len(frames)].occupied_points = Top.occupied_points
          /\ frames'[Len(frames)].scaffold_array = Top.scaffold_array
          /\ ActiveAfter]_vars

\* an agent that met the boundary after a completed descent: it turns down again,
\* its counter back at 0
C19_Witness ==
    \E s \in LiveSnakes :
        /\ s.state = "turn_left_down" /\ s.turn_type = "left"
        /\ s.down_counter = 0
        /\ s.pink_branches = <<>>
        /\ Len(s.path) > 1 + down_pixels

\* C20: when the target of a step in state to_edge is among the sibling's last 8
\* points, a first-generation agent appends exactly one branch built from its unmoved
\* current point, flips its bias, turns 90 degrees toward the new bias and enters the
\* turn-down state of the new bias with down_counter 0, staying active; an agent of a
\* recursive pass changes nothing and returns inactive.
C20_CollisionRejection ==
    [][(StepsInToEdge /\ TargetInside /\ TargetCollides) =>
          LET flipped == IF Stepper.turn_type = "right" THEN "left" ELSE "right"
              branch == create_pink_branch(Stepper.current_x, Stepper.current_y, mask,
                                           Top.occupied_points, Rand(draws), Rand(draws + 1))
          IN /\ frames'[Len(frames)].occupied_points = Top.occupied_points
             /\ frames'[Len(frames)].scaffold_array = Top.scaffold_array
             /\ IF Stepper.is_recursive
                THEN StepperAfter = Stepper /\ ~ActiveAfter
                ELSE /\ StepperAfter =
                           [Stepper EXCEPT !.pink_branches = Append(@, branch),
                                           !.turn_type = flipped,
                                           !.dx = TurnedToward(Stepper, flipped)[1],
                                           !.dy = TurnedToward(Stepper, flipped)[2],
                                           !.state = TurnDownState(flipped),
                                           !.down_counter = 0]
                     /\ ActiveAfter]_vars

\* a recursive pass whose right agent stopped at a collision, under a first pass
\* whose agents branched
C20_Witness ==
    /\ Len(frames) = 2
    /\ frames[1].left_snake.pink_branches # <<>>
    /\ frames[1].left_snake.turn_type = "left"
    /\ \E s \in {frames[2].left_snake, frames[2].right_snake} :
          /\ s.is_recursive /\ s.state = "to_edge"
          /\ s.current_y < mask.h - bottom_margin
          /\ s.current_y % (3 * down_pixels) # 0
          /\ ~(IF s = frames[2].left_snake THEN frames[2].left_active
               ELSE frames[2].right_active)

\* the call is made on an agent in a turn-down state
StepsInTurnDown ==
    /\ pc \in {"left", "right"}
    /\ Stepper.state \in {"turn_right_down", "turn_left_down"}

\* C21: every turn-down sequence advances the agent by exactly down_pixels rows, one
\* row per call of move_step, before the agent is back in to_edge: during a sequence
\* down_counter counts the rows descended so far, and the call that brings the agent
\* back to to_edge is the one that accepts row number down_pixels.
C21_DescentExactlyDRows ==
    /\ [](\A s \in LiveSnakes :
            s.state # "to_edge" =>
                /\ s.down_counter < down_pixels
                /\ Len(s.path) > s.down_counter
                /\ \A i \in 1..s.down_counter :
                      s.path[Len(s.path) - i + 1]
                        = <<s.path[Len(s.path) - i][1], s.path[Len(s.path) - i][2] + 1>>)
    /\ [][StepsInTurnDown =>
            /\ Len(StepperAfter.path) <= Len(Stepper.path) + 1
            /\ StepperAfter.state = "to_edge" =>
                  /\ Stepper.down_counter = down_pixels - 1
                  /\ StepperAfter.path
                       = Append(Stepper.path, <<Stepper.current_x, Stepper.current_y + 1>>)]_vars

\* C22: when a call of move_step finds the agent in a descent and row y + 1 holds no
\* shape pixel, the call returns inactive and moves nothing.
C22_EmptyRowTerminates ==
    [][(/\ StepsInTurnDown
        /\ Stepper.down_counter < down_pixels
        /\ ~check_line_has_shape(mask, Stepper.current_y + 1)) =>
          /\ ~ActiveAfter
          /\ StepperAfter.path = Stepper.path
          /\ <<StepperAfter.current_x, StepperAfter.current_y>>
               = <<Stepper.current_x, Stepper.current_y>>]_vars

OtherBias(bias) == IF bias = "right" THEN "left" ELSE "right"

\* the side of the descent the agent is in
DescentBias(s) == IF s.state = "turn_right_down" THEN "right" ELSE "left"

\* the number of boundary turns the agent has completed, modulo 2: every completed
\* turn-down sequence reverses the heading, and every sequence that began at a
\* collision left one branch
BoundaryTurnParity(s) ==
    LET initial_direction == IF s.snake_id = "left" THEN -1 ELSE 1
        reversals == IF s.dx = initial_direction THEN 0 ELSE 1
    IN (reversals + Len(s.pink_branches)) % 2

\* C23: the call that completes a turn-down sequence turns the agent a quarter again
\* to the side of the sequence, which makes its heading the reverse of the heading it
\* had before the sequence, puts it in to_edge and records the opposite bias; in
\* to_edge the heading is horizontal and the bias for the next boundary is right
\* after an even number of boundary turns and left after an odd number.
C23_DescentEndsReversed ==
    /\ [](\A s \in LiveSnakes :
            IF s.state = "to_edge"
            THEN /\ s.dy = 0 /\ s.dx \in {-1, 1}
                 /\ s.turn_type = IF BoundaryTurnParity(s) = 0 THEN "right" ELSE "left"
            ELSE /\ s.dx = 0
                 /\ s.turn_type = DescentBias(s))
    /\ [][(StepsInTurnDown /\ StepperAfter.state = "to_edge") =>
            LET before == TurnedToward(Stepper, OtherBias(DescentBias(Stepper)))
            IN /\ Heading(StepperAfter) = TurnedToward(Stepper, DescentBias(Stepper))
               /\ Heading(StepperAfter) = <<-before[1], -before[2]>>
               /\ StepperAfter.turn_type = OtherBias(DescentBias(Stepper))]_vars

\* an agent back in to_edge after a boundary turn, a collision turn and a second
\* boundary turn
C23_Witness ==
    \E s \in LiveSnakes :
        /\ s.state = "to_edge" /\ Len(s.pink_branches) = 1
        /\ s.turn_type = "right" /\ s.dx = (IF s.snake_id = "left" THEN 1 ELSE -1)
        /\ s.current_y >= 2 * down_pixels

\* C24: a call of move_step on an agent whose y is at least mask height - 10 returns
\* inactive and leaves the agent (position, direction, state, path, branches), the
\* occupied points and the grid unchanged.
C24_BottomMarginFreezes ==
    [][(pc \in {"left", "right"} /\ Stepper.current_y >= mask.h - bottom_margin) =>
          /\ ~ActiveAfter
          /\ StepperAfter = Stepper
          /\ frames'[Len(frames)].occupied_points = Top.occupied_points
          /\ frames'[Len(frames)].scaffold_array = Top.scaffold_array]_vars

\* a pass that ended before its iteration ceiling with both agents at the bottom
\* margin, one of them stopped in the middle of a descent
C24_Witness ==
    /\ pc = "finish" /\ Top.iteration < horizon
    /\ ~Top.left_active /\ ~Top.right_active
    /\ Top.left_snake.current_y = mask.h - bottom_margin
    /\ Top.right_snake.current_y = mask.h - bottom_margin
    /\ \E s \in {Top.left_snake, Top.right_snake} : s.state # "to_edge"

\* the pass on top is a first-generation pass spawned on a row with shape pixels
FirstGenerationOnShapeRow ==
    /\ frames # <<>>
    /\ ~Top.left_snake.is_recursive
    /\ check_line_has_shape(mask, Top.start[2])

C26_AgentsAlternate ==
    /\ [](\A k \in 1..Len(frames) :
            /\ frames[k].iteration <= max_iterations
            /\ Len(frames[k].right_snake.path) <= frames[k].iteration + 1
            /\ Len(frames[k].left_snake.path)
                 <= frames[k].iteration + 1 + (IF k = Len(frames) /\ pc = "right" THEN 1 ELSE 0))
    /\ [][/\ pc = "left" =>
               /\ pc' = "right"
               /\ frames'[Len(frames)].right_snake = Top.right_snake
               /\ frames'[Len(frames)].iteration = Top.iteration
          /\ pc = "right" =>
               LET g == frames'[Len(frames)]
                   stop == ~g.left_active /\ ~g.right_active
               IN /\ g.left_snake = Top.left_snake
                  /\ g.left_active = Top.left_active
                  /\ g.iteration = IF stop THEN Top.iteration ELSE Top.iteration + 1
                  /\ pc' = IF stop \/ g.iteration >= max_iterations THEN "finish" ELSE "left"
          /\ pc' = "right" => pc = "left"
          /\ pc' = "left" => pc \in {"call", "right"}]_vars

\* a pass that stopped in the iteration in which the second agent became inactive,
\* the first having gone inactive earlier
C26_Witness ==
    /\ pc = "finish" /\ ~Top.left_active /\ ~Top.right_active
    /\ Top.iteration > down_pixels
    /\ Len(Top.left_snake.path) < Len(Top.right_snake.path)
    /\ Len(Top.right_snake.path) <= Top.iteration + 1

\* the occupied points of the harness within the square of the given radius around
\* the collision point
Within(radius) ==
    {p \in builder.occupied_points :
        /\ Abs(p[1] - builder.collision[1]) <= radius
        /\ Abs(p[2] - builder.collision[2]) <= radius}

\* C27: calculate_bump_height returns 5 when fewer than two occupied points lie within
\* the search radius 10 of the collision point, and otherwise the difference between
\* the largest and the smallest y of those points, clamped to 1..20; the result is
\* always in 1..20.
C27_BumpHeight ==
    builder.phase \in {"bump", "done"} =>
        LET ys == {p[2] : p \in Within(bump_search_radius)}
            spread == SetMax(ys) - SetMin(ys)
        IN /\ builder.bump_height \in 1..bump_max
           /\ Cardinality(Within(bump_search_radius)) < 2 => builder.bump_height = bump_default
           /\ Cardinality(Within(bump_search_radius)) >= 2 =>
                 builder.bump_height
                   = (IF spread < 1 THEN 1 ELSE IF spread > bump_max THEN bump_max ELSE spread)

\* two points on one row give 1, points on the rim of the window give the full spread
C27_Witness ==
    /\ builder.phase = "done" /\ builder.bump_height = 2 * bump_search_radius
    /\ builder.occupied_points # Within(bump_search_radius)

\* C28: find_snake_midpoint returns the collision point when no other occupied point
\* lies within |dx| <= 3, |dy| <= 3 of it, and otherwise the component-wise integer
\* average of the collision point and an occupied point of that window, other than the
\* collision point, whose Manhattan distance to the collision point is minimal.
C28_Midpoint ==
    builder.phase = "done" =>
        LET c == builder.collision
            near == Within(midpoint_search_radius) \ {c}
            Dist(p) == Abs(p[1] - c[1]) + Abs(p[2] - c[2])
        IN IF near = {} THEN builder.midpoint = c
           ELSE \E p \in near :
                   /\ \A q \in near : Dist(p) <= Dist(q)
                   /\ builder.midpoint = <<(c[1] + p[1]) \div 2, (c[2] + p[2]) \div 2>>

\* the nearest point is the corner of the window, although a point outside the window
\* is closer
C28_Witness ==
    /\ builder.phase = "done"
    /\ builder.midpoint = <<builder.collision[1] + midpoint_search_radius \div 2,
                            builder.collision[2] + midpoint_search_radius \div 2>>
    /\ <<builder.collision[1] + midpoint_search_radius + 1, builder.collision[2]>>
         \in builder.occupied_points

\* C29: the branch a collision emits starts at the midpoint, runs at most H unit
\* steps to one side and then at most H unit steps to the other side along one axis
\* (1 to 2H + 1 points on one row or one column), each arm ending before the first
\* cell outside the shape, and every point of it, the midpoint included, is inside the
\* shape.
C29_BranchInsideShape ==
    [][(StepsInToEdge /\ TargetInside /\ TargetCollides /\ ~Stepper.is_recursive) =>
          LET b == StepperAfter.pink_branches[Len(StepperAfter.pink_branches)]
              H == calculate_bump_height(Stepper.current_x, Stepper.current_y,
                                         Top.occupied_points)
              mid == find_snake_midpoint(Stepper.current_x, Stepper.current_y,
                                         Top.occupied_points)
              At(a, i) == <<mid[1] + i * a[1], mid[2] + i * a[2]>>
              Inside(p) == is_point_in_shape(mask, p[1], p[2])
          IN /\ b[1] = mid
             /\ Len(b) \in 1..(2 * H + 1)
             /\ \E a \in UnitVectors : \E n1, n2 \in 0..H :
                   /\ Len(b) = 1 + n1 + n2
                   /\ \A i \in 1..n1 : b[1 + i] = At(a, i)
                   /\ \A i \in 1..n2 : b[1 + n1 + i] = At(a, -i)
                   /\ n1 < H => ~Inside(At(a, n1 + 1))
                   /\ n2 < H => ~Inside(At(a, -(n2 + 1)))
             /\ \A i \in 1..Len(b) : Inside(b[i])]_vars

\* the 4-connected components of the pixel set E: the smallest non-empty subsets no
\* pixel of which has a neighbour in the rest of E
Components(E) ==
    LET closed == {C \in SUBSET E : C # {} /\ \A p \in C : Neighbours4(p) \cap E \subseteq C}
    IN {C \in closed : \A D \in closed : D \subseteq C => D = C}

\* p comes before q in the scan: rows top to bottom, each row left to right
ScannedBefore(p, q) == p[2] < q[2] \/ (p[2] = q[2] /\ p[1] < q[1])

\* C30: findEmptySpace returns the topmost point (integer mean x of the pixels at the
\* minimal y, and that y) of the first component of (inside the mask and not drawn),
\* components ordered by their first pixel in the scan, that has at least
\* min_region_size pixels and whose topmost point has no used start closer than
\* min_distance; it returns None iff no component passes both tests.
C30_FirstQualifyingRegion ==
    fes.phase = "done" =>
        LET E == ShapePixels(fes.mask) \ fes.scaffold
            TopPoint(C) ==
                LET top_y == SetMin({p[2] : p \in C})
                    xs == {p[1] : p \in {q \in C : q[2] = top_y}}
                    sum == SetSum(xs)
                IN <<sum \div Cardinality(xs), top_y>>
            First(C) == CHOOSE p \in C : \A q \in C : p = q \/ ScannedBefore(p, q)
            Qualifies(C) ==
                /\ Cardinality(C) >= fes.min_region_size
                /\ \A i \in 1..Len(fes.used_starts) :
                      SqDist(TopPoint(C), fes.used_starts[i])
                        >= fes.min_distance * fes.min_distance
            qualifying == {C \in Components(E) : Qualifies(C)}
        IN IF qualifying = {} THEN fes.found = None
           ELSE \E C \in qualifying :
                   /\ \A D \in qualifying : D = C \/ ScannedBefore(First(C), First(D))
                   /\ fes.found = TopPoint(C)

\* the first component of the scan is large enough but too close to a used start, a
\* later one is returned
C30_Witness ==
    /\ fes.phase = "done" /\ fes.found # None
    /\ LET E == ShapePixels(fes.mask) \ fes.scaffold
       IN \E C, D \in Components(E) :
             /\ C # D
             /\ ScannedBefore(FirstScanned(C), FirstScanned(D))
             /\ Cardinality(C) >= fes.min_region_size
             /\ \E i \in 1..Len(fes.used_starts) :
                   SqDist(RegionStart(C), fes.used_starts[i])
                     < fes.min_distance * fes.min_distance
             /\ RegionStart(D) = fes.found

\* C31: a start point returned by findEmptySpace is a pixel of the region it was
\* computed from: inside the shape and not drawn.
C31_FoundStartInRegion ==
    (fes.phase = "done" /\ fes.found # None) =>
        fes.found \in ShapePixels(fes.mask) \ fes.scaffold

\* C32: once a pass has run, used_starts holds the point at which its two agents were
\* spawned, and the start of every later pass is at least min_distance away from the
\* spawn point of every earlier pass.
C32_UsedStartsHoldSpawnPoints ==
    /\ \A k \in 1..Len(frames) :
          frames[k].snake_paths # <<>> =>
              \E i \in 1..Len(used_starts) : used_starts[i] = frames[k].start
    /\ \A k \in 1..Len(frames) : \A j \in (k + 1)..Len(frames) :
          SqDist(frames[j].start_point, frames[k].start)
            >= default_min_distance * default_min_distance

\* the number of consecutive shape pixels of row y from x on, in direction d
Clearance(x, y, d) ==
    Cardinality({n \in 1..mask.w :
                   \A i \in 0..(n - 1) : is_point_in_shape(mask, x + d * i, y)})

\* C33: a pass starts at the supplied start (by default the topmost point: the integer
\* mean x of the first row with shape pixels) unless that point has fewer than
\* step_size shape pixels to its left or to its right; then it starts at (mean x of the
\* row, row) of the first of the rows start_y + 10, start_y + 15, ... (offset below 100,
\* row inside the mask) whose mean x has at least 3 * step_size shape pixels on each
\* side, and at the supplied start when no such row exists.
C33_PassStart ==
    (pc = "left" /\ Top.iteration = 0) =>
        LET sp == Top.start_point
            rows == {y \in 0..(mask.h - 1) : \E x \in 0..(mask.w - 1) : is_point_in_shape(mask, x, y)}
            Mean(y) == LET xs == {x \in 0..(mask.w - 1) : is_point_in_shape(mask, x, y)}
                       IN SetSum(xs) \div Cardinality(xs)
            probed == {y \in rows :
                         /\ y - sp[2] >= probe_first_offset
                         /\ y - sp[2] < probe_offset_limit
                         /\ (y - sp[2] - probe_first_offset) % probe_offset_step = 0
                         /\ Clearance(Mean(y), y, -1) >= 3 * step_size
                         /\ Clearance(Mean(y), y, 1) >= 3 * step_size}
        IN /\ (Len(frames) = 1 /\ arg_start = None) =>
                 sp = <<Mean(SetMin(rows)), SetMin(rows)>>
           /\ Top.start =
                 IF Clearance(sp[1], sp[2], -1) >= step_size
                    /\ Clearance(sp[1], sp[2], 1) >= step_size
                 THEN sp
                 ELSE IF probed = {} THEN sp
                 ELSE <<Mean(SetMin(probed)), SetMin(probed)>>
           /\ <<Top.left_snake.current_x, Top.left_snake.current_y>> = Top.start
           /\ <<Top.right_snake.current_x, Top.right_snake.current_y>> = Top.start

\* a pass re-anchored at a row that was not the first row probed
C33_Witness ==
    /\ pc = "left" /\ Top.iteration = 0
    /\ Top.start[2] - Top.start_point[2] > probe_first_offset
    /\ Top.left_snake.path = <<Top.start>>

\* C34: a pass whose recursive call returned hands back its own two paths (left agent,
\* right agent) followed by the paths of the recursive call, its branches and
\* connectors followed by those of the recursive call, and the cell-wise OR of the two
\* grids; a pass for which findEmptySpace found nothing hands back its own results.
\* A returned path list holds two paths for each pass that produced it.
C34_MergeConcatenates ==
    /\ [](pc = "merge" => Len(ret[1]) = 2 * (passes - Len(frames)))
    /\ []((Returned /\ entry = "generate" /\ Len(result) = 4) => Len(result[1]) = 2 * passes)
    /\ [][LET own == <<Top.left_snake.path, Top.right_snake.path>>
              branches == Top.left_snake.pink_branches \o Top.right_snake.pink_branches
          IN /\ (pc = "merge" /\ pc' # "done") =>
                   /\ ret'[1] = own \o ret[1]
                   /\ ret'[2] = Top.scaffold_array \cup ret[2]
                   /\ ret'[3] = branches \o ret[3]
                   /\ ret'[4] = Top.connector_branches \o ret[4]
                   /\ raised' = ""
             /\ (pc = "recurse" /\ pc' \in {"merge", "caller"}) =>
                   ret' = <<own, Top.scaffold_array, branches, Top.connector_branches>>]_vars

\* the caller holds the paths of two passes, the second pass started elsewhere, and
\* the branches of both
C34_Witness ==
    /\ Returned /\ entry = "generate" /\ passes = 2
    /\ Len(result[1]) = 4
    /\ result[1][3][1] = result[1][4][1]
    /\ result[1][3][1] # result[1][1][1]
    /\ result[3] # <<>>

\* the number of points of a bracket whose scaled cell is filled in the harness's grid
Conflicts(b) ==
    Cardinality({k \in 1..Len(b) :
                   <<ScaleX(placer.mask, placer.array_shape, b[k][1]),
                     ScaleY(placer.mask, placer.array_shape, b[k][2])>>
                       \in placer.scaffold_array})

\* every point of the bracket is a shape pixel
WholeInShape(b) == \A k \in 1..Len(b) : is_point_in_shape(placer.mask, b[k][1], b[k][2])

\* b is a bracket of arm length L: a top arm of L unit steps to one side, a vertical
\* arm of four unit steps down, a bottom arm of L unit steps back to the other side
IsBracket(b, L) ==
    /\ Len(b) = 2 * L + 5
    /\ \E side \in {-1, 1} :
          /\ \A k \in 1..L : b[k + 1] = <<b[k][1] + side, b[k][2]>>
          /\ \A k \in (L + 1)..(L + 4) : b[k + 1] = <<b[k][1], b[k][2] + 1>>
          /\ \A k \in (L + 5)..(2 * L + 4) : b[k + 1] = <<b[k][1] - side, b[k][2]>>

\* C35: every connector generate_random_connectors returns is a whole bracket of
\* 2L+5 points for an arm length L in 4..8 (top arm, vertical arm, bottom arm), each
\* point one 4-adjacent unit step from the one before and every point a shape pixel;
\* the returned list is, in the order of the selected positions, the brackets of the
\* candidates that lie wholly in the shape and pass the conflict test, so a candidate
\* with a step outside the shape or the mask contributes nothing and changes nothing
\* about the others.
C35_ConnectorsAreWholeBrackets ==
    placer.phase = "done" =>
        /\ \A i \in 1..Len(placer.connectors) :
              /\ \E L \in 4..8 : IsBracket(placer.connectors[i], L)
              /\ \A k \in 1..(Len(placer.connectors[i]) - 1) :
                    SqDist(placer.connectors[i][k], placer.connectors[i][k + 1]) = 1
              /\ WholeInShape(placer.connectors[i])
        /\ placer.connectors =
              SelectSeq([i \in 1..Len(placer.selected_positions) |->
                           BracketPoints(placer.selected_positions[i][1],
                                         placer.selected_positions[i][2],
                                         placer.lens[i], placer.dirs[i])],
                        LAMBDA b : WholeInShape(b) /\ 3 * Conflicts(b) <= Len(b))

\* two positions were tried, the bracket of the first left the shape and the bracket of
\* the second was returned
C35_Witness ==
    /\ placer.phase = "done"
    /\ Len(placer.selected_positions) = 2
    /\ ~WholeInShape(BracketPoints(placer.selected_positions[1][1],
                                   placer.selected_positions[1][2],
                                   placer.lens[1], placer.dirs[1]))
    /\ placer.connectors = <<BracketPoints(placer.selected_positions[2][1],
                                           placer.selected_positions[2][2],
                                           placer.lens[2], placer.dirs[2])>>

\* C36: every connector generate_random_connectors returns has at least 8 points and
\* at most one third of its points lie on a cell of the occupancy grid that is already
\* 1; one call returns at most 20 connectors.
C36_AcceptedConnectors ==
    placer.phase = "done" =>
        /\ Len(placer.connectors) <= 20
        /\ \A i \in 1..Len(placer.connectors) :
              /\ Len(placer.connectors[i]) >= 8
              /\ 3 * Conflicts(placer.connectors[i]) <= Len(placer.connectors[i])

\* more than 20 positions were valid, 20 connectors were returned and one of them lies
\* partly on filled cells
C36_Witness ==
    /\ placer.phase = "done"
    /\ Len(placer.valid_positions) > 20
    /\ Len(placer.connectors) = 20
    /\ \E i \in 1..20 : Conflicts(placer.connectors[i]) > 0

\* the rows of the grid that hold a filled cell
PopulatedRows(a) == {c[2] : c \in a}

\* C37: when the loop of a pass ends, the rows of its occupancy grid that hold a filled
\* cell are consecutive, so generate_random_connectors finds no two neighbouring
\* populated rows 8 or more apart and can only return the empty list; no pass of a run
\* ever has a connector and none reaches the caller.
C37_RunsHaveNoConnectors ==
    /\ \A k \in 1..Len(frames) : frames[k].connector_branches = <<>>
    /\ (pc = "finish" /\ Top.has_array) =>
          /\ \A y \in PopulatedRows(Top.scaffold_array) :
                y + 1 \in PopulatedRows(Top.scaffold_array)
                  \/ y = SetMax(PopulatedRows(Top.scaffold_array))
          /\ generate_random_connectors(mask, Top.scaffold_array, array_shape, TRUE)
                = {<<>>}
    /\ (pc \in {"merge", "caller"} /\ Len(ret) = 4) => ret[4] = <<>>
    /\ (Returned /\ entry = "generate" /\ Len(result) = 4) => result[4] = <<>>

\* a pass has ended with two populated rows ten apart that share 14 or more columns
\* and would, were the rows between them empty, give a valid connector position
C37_Witness ==
    /\ pc = "finish" /\ Top.has_array
    /\ \E y \in PopulatedRows(Top.scaffold_array) :
          PairPositions(mask, {c \in Top.scaffold_array : c[2] \in {y, y + down_pixels}},
                        array_shape, y, y + down_pixels) # <<>>

\* what an agent is apart from the branches it collected
Agent(s) == [s EXCEPT !.pink_branches = <<>>]

\* C38: the outermost pass made again on the same mask from the same start with other
\* random outcomes ends with the same two paths, the same agent states (position,
\* heading, state, counters, bias), the same occupied points and the same occupancy
\* grid after the same number of iterations and random draws; only the branches may
\* differ.
C38_PassIgnoresRandomOutcomes ==
    (pc = "finish" /\ Len(frames) = 1 /\ earlier # <<>>) =>
        /\ seed # earlier[1].seed
        /\ Agent(Top.left_snake) = Agent(earlier[1].frame.left_snake)
        /\ Agent(Top.right_snake) = Agent(earlier[1].frame.right_snake)
        /\ Top.occupied_points = earlier[1].frame.occupied_points
        /\ Top.scaffold_array = earlier[1].frame.scaffold_array
        /\ Top.iteration = earlier[1].frame.iteration
        /\ Top.start = earlier[1].frame.start
        /\ draws = earlier[1].draws
        /\ Len(Top.left_snake.pink_branches) = Len(earlier[1].frame.left_snake.pink_branches)
        /\ Len(Top.right_snake.pink_branches)
             = Len(earlier[1].frame.right_snake.pink_branches)

\* the second pass has ended with branches that differ from those of the first
C38_Witness ==
    /\ pc = "finish" /\ Len(frames) = 1 /\ earlier # <<>>
    /\ Top.left_snake.pink_branches \o Top.right_snake.pink_branches
         # earlier[1].frame.left_snake.pink_branches
             \o earlier[1].frame.right_snake.pink_branches
    /\ Len(Top.left_snake.path) > 2 * down_pixels

\* C39: the result check of the /generate handler answers "success" only for a result
\* of at least 4 components; process_existing_image hands back 3 components whether
\* the file is missing, an exception is caught or the analysis completes; so every
\* request that reaches the result check is answered with status "error".
C39_GenerateAnswersError ==
    /\ http.phase # "off" =>
          (http.checked = "success" => Len(http.probe) >= 4)
    /\ http.phase = "responded" =>
          /\ Len(http.result) = 3
          /\ http.status = "error"

\* a request whose image was saved and loaded has been answered, and the result check
\* answers "success" for a tuple of four
C39_Witness ==
    /\ http.phase = "responded"
    /\ http.fetch = "saved" /\ http.readable
    /\ http.status = "error"
    /\ http.checked = "success" /\ Len(http.probe) = 4

====
